---------------------------- MODULE Spec2Model ----------------------------
(***************************************************************************)
(* Lion Cloud device file system: the virtual file system (lcopen, lcread, *)
(* lcwrite, lcseek, lcclose), its block allocator and chain walk, the LRU  *)
(* block cache, the register codec and the bus transport, as a state       *)
(* machine with one action per call of the programmatic surface.           *)
(***************************************************************************)
EXTENDS Integers, Sequences, FiniteSets, TLC

VARIABLES
    file_handle,    \* global tracker for file handles
    files,          \* the file table files[]
    devices,        \* the device table devices[16]
    LRU_cache,      \* the cache lines
    cache_time,     \* logical clock of the cache
    hits,           \* cache hit tally
    misses,         \* cache miss tally
    cache_lines,    \* number of lines in the cache
    socket_handle,  \* the transport's connection handle, -1 when none
    bus,            \* the remote storage controller (the environment)
    fault,          \* TRUE once the program has done a wild memory access
    lastOp,         \* the call that has just returned, with its arguments
    ret,            \* the value that call returned
    out,            \* the bytes that call delivered into the caller's buffer
    pre,            \* the globals as they were when that call was made
    log,            \* what that call did, in order: bus requests, cache
                    \* lookups and inserts, files closed
    tally           \* cache lookups made directly so far, how many of them
                    \* returned a line, and whether lcopen was called yet

vars == <<file_handle, files, devices, LRU_cache, cache_time, hits, misses,
          cache_lines, socket_handle, bus, fault, lastOp, ret, out, pre, log,
          tally>>

----------------------------------------------------------------------------
(* Bounds of the model *)

\* files that may be created in a run
MaxFiles == 2
\* value of the cache clock past which no further read or write is started
MaxTime == 2
\* bus requests of one call, numbered from 1, that the environment may fail
MaxFailAt == 1
\* lines of the cache; the program takes the number from a header
LC_CACHE_MAXBLOCKS == 2
\* last request of an open that the environment may make fail
MaxOpenFailAt == 4
\* value of the cache clock past which the runs on two files start no read
\* or write
MaxPairTime == 4
\* largest capacity a cache used on its own is initialised with
MaxCap == 2
\* value of the cache clock past which a cache used on its own is not touched
MaxCacheTime == 4
\* value of the cache clock past which the longer runs make no read or write
MaxLongTime == 5
\* last request of a read or write of the longer runs that may be made to fail
MaxLongFailAt == 2

----------------------------------------------------------------------------
(* Program constants *)

LC_DEVICE_BLOCK_SIZE == 256
LC_MAX_DEVICES == 16

\* opcodes (C0) and transfer directions (C2); the header that numbers them is
\* not in the source, the numbers here are distinct codes
LC_POWER_ON == 0
LC_DEVPROBE == 1
LC_DEVINIT == 2
LC_BLOCK_XFER == 3
LC_POWER_OFF == 4
LC_XFER_WRITE == 0
LC_XFER_READ == 1

\* an int of -1 stored into a uint16_t field
UINT16_MINUS1 == 65535

\* "no next block" in a block descriptor, "device off" in a device
NONE == -1

\* the descriptor of a connected socket
SOCKET_FD == 3

\* stands for the indeterminate value of an int that was never initialised;
\* using it as an index or a link sets fault
INDETERMINATE == -99

----------------------------------------------------------------------------
(* Byte blocks *)

Min(a, b) == IF a < b THEN a ELSE b
Max(a, b) == IF a > b THEN a ELSE b

\* memset(temp, 0, 256)
ZeroBlock == [i \in 1..LC_DEVICE_BLOCK_SIZE |-> 0]

\* n bytes of value v
Fill(n, v) == [i \in 1..n |-> v]

\* memcpy(&dst[at], src, n): dst with the n bytes from index at (0-based)
\* replaced by the first n bytes of src
Memcpy(dst, at, src, n) ==
    [i \in 1..Len(dst) |-> IF i > at /\ i <= at + n THEN src[i - at] ELSE dst[i]]

\* index (1-based) of the first zero byte of s, Len(s)+1 when there is none
FirstNul(s) ==
    LET Z == { i \in 1..Len(s) : s[i] = 0 }
    IN  IF Z = {} THEN Len(s) + 1 ELSE CHOOSE i \in Z : \A j \in Z : i <= j

\* memcpy of a whole block: every byte is copied
MemcpyBlock(block) == [i \in 1..LC_DEVICE_BLOCK_SIZE |-> block[i]]

\* strncpy(buffer, block, 256): copies up to the first zero byte, then pads
\* the destination with zero bytes
Strncpy(block) ==
    LET z == FirstNul(block)
    IN  [i \in 1..LC_DEVICE_BLOCK_SIZE |-> IF i < z THEN block[i] ELSE 0]

----------------------------------------------------------------------------
(* Register codec.  A 64-bit frame is held as four 16-bit limbs,            *)
(* <<bits 63..48, bits 47..32, bits 31..16, bits 15..0>>.                   *)

\* an encoder that puts C1 and C2 in each other's place; CodecRoundTrip does
\* not hold of it
CreateRegistersSwapped(B0, B1, C0, C1, C2, D0, D1) ==
    << (B0 % 16) * 4096 + (B1 % 16) * 256 + (C0 % 256),
       (C2 % 256) * 256 + (C1 % 256),
       D0 % 65536,
       D1 % 65536 >>


\* an encoder that does not mask C1: a value wider than 8 bits runs over
\* into the bits of C0; EncodeTruncates does not hold of it
CreateRegistersUnmasked(B0, B1, C0, C1, C2, D0, D1) ==
    << ((B0 % 16) * 4096 + (B1 % 16) * 256 + (C0 % 256) + (C1 \div 256)) % 65536,
       (C1 % 256) * 256 + (C2 % 256),
       D0 % 65536,
       D1 % 65536 >>

\* (B0 & 0xf) << 60 | (B1 & 0xf) << 56 | (C0 & 0xff) << 48 | ...
create_lcloud_registers(B0, B1, C0, C1, C2, D0, D1) ==
    << (B0 % 16) * 4096 + (B1 % 16) * 256 + (C0 % 256),
       (C1 % 256) * 256 + (C2 % 256),
       D0 % 65536,
       D1 % 65536 >>

\* resp & 0xffff, resp >> 16, ... from the least significant end upward
extract_lcloud_registers(resp) ==
    [ d1 |-> resp[4] % 65536,
      d0 |-> resp[3] % 65536,
      c2 |-> resp[2] % 256,
      c1 |-> (resp[2] \div 256) % 256,
      c0 |-> resp[1] % 256,
      b1 |-> (resp[1] \div 256) % 16,
      b0 |-> (resp[1] \div 4096) % 16 ]

\* the frame whose 64 bits are all ones: the value -1
FRAME_MINUS1 == <<65535, 65535, 65535, 65535>>

----------------------------------------------------------------------------
(* Cache (lcloud_cache.c).  The operators below take and return the whole  *)
(* program state as a record S, as the C functions work on the globals.    *)
(* A function whose later steps use an earlier result is written as a      *)
(* chain of operators, each taking the results so far as parameters.       *)

\* the record of the call so far with one more event
Logged(S, event) == [S EXCEPT !.log = Append(S.log, event)]

\* a cache line as lcloud_initcache leaves it
EmptyLine ==
    [ buffer |-> ZeroBlock, entry_time |-> -1, dev_id |-> -1,
      sec |-> UINT16_MINUS1, blk |-> UINT16_MINUS1 ]

\* LRU_cache before any lcloud_initcache: the null pointer of a global
NULL == [i \in {-1} |-> EmptyLine]

\* LRU_cache after free(LRU_cache): the pointer is kept and dangles
FREED == [i \in {-2} |-> EmptyLine]

\* LRU_cache[i].dev_id == did && LRU_cache[i].sec == sec && LRU_cache[i].blk == blk
LineMatches(line, did, sec, blk) ==
    line.dev_id = did /\ line.sec = sec % 65536 /\ line.blk = blk % 65536

\* lcloud_initcache(maxblocks)
lcloud_initcache(S, maxblocks) ==
    [S EXCEPT !.cache_lines = maxblocks,
              !.LRU_cache = [i \in 0..maxblocks - 1 |-> EmptyLine]]

\* index of the first line holding the key, -1 when no line holds it
RECURSIVE GetScan(_, _, _, _, _, _)
GetScan(cache, n, i, did, sec, blk) ==
    IF i >= n THEN -1
    ELSE IF LineMatches(cache[i], did, sec, blk) THEN i
    ELSE GetScan(cache, n, i + 1, did, sec, blk)

\* a lookup that counts only the hits; CacheStatistics does not hold of it
GetCacheHitsOnly(S, i, t) ==
    IF i >= 0
    THEN [ S |-> [S EXCEPT !.cache_time = t,
                           !.hits = S.hits + 1,
                           !.LRU_cache[i].entry_time = t],
           found |-> TRUE,
           buffer |-> S.LRU_cache[i].buffer ]
    ELSE [ S |-> [S EXCEPT !.cache_time = t],
           found |-> FALSE,
           buffer |-> <<>> ]

\* the outcome of lcloud_getcache once the scan ended at line i (-1: no line)
GetCacheAt(S, i, t) ==
    IF i >= 0
    THEN [ S |-> [S EXCEPT !.cache_time = t,
                           !.hits = S.hits + 1,
                           !.LRU_cache[i].entry_time = t],
           found |-> TRUE,
           buffer |-> S.LRU_cache[i].buffer ]
    ELSE [ S |-> [S EXCEPT !.cache_time = t, !.misses = S.misses + 1],
           found |-> FALSE,
           buffer |-> <<>> ]

\* lcloud_getcache(did, sec, blk): [S, found, buffer]
lcloud_getcache(S, did, sec, blk) ==
    IF S.cache_lines > 0 /\ S.LRU_cache \in { NULL, FREED }
    THEN [ S |-> [S EXCEPT !.fault = TRUE], found |-> FALSE, buffer |-> <<>> ]
    ELSE GetCacheAt(Logged(S, [ev |-> "get", key |-> <<did, sec % 65536, blk % 65536>>]),
                    GetScan(S.LRU_cache, S.cache_lines, 0, did, sec, blk),
                    S.cache_time + 1)

\* a scan that looks for the oldest line only and does not stop at the line
\* that holds the key; OneLinePerKey does not hold of it
RECURSIVE PutScanOldestOnly(_, _, _, _, _, _, _, _)
PutScanOldestOnly(cache, n, i, did, sec, blk, least_time, least_recent) ==
    IF i >= n THEN least_recent
    ELSE IF cache[i].entry_time < least_time
         THEN PutScanOldestOnly(cache, n, i + 1, did, sec, blk, cache[i].entry_time, i)
         ELSE PutScanOldestOnly(cache, n, i + 1, did, sec, blk, least_time, least_recent)

\* the scan of lcloud_putcache: the line to overwrite.  least_recent is the
\* value the variable holds so far; it starts uninitialised.
RECURSIVE PutScan(_, _, _, _, _, _, _, _)
PutScan(cache, n, i, did, sec, blk, least_time, least_recent) ==
    IF i >= n THEN least_recent
    ELSE IF LineMatches(cache[i], did, sec, blk) THEN i
    ELSE IF cache[i].entry_time < least_time
         THEN PutScan(cache, n, i + 1, did, sec, blk, cache[i].entry_time, i)
         ELSE PutScan(cache, n, i + 1, did, sec, blk, least_time, least_recent)

\* the copy of the caller's block into the line's buffer
CacheCopy(block) == Strncpy(block)

\* the store of lcloud_putcache into line least_recent
PutCacheAt(S, least_recent, line) ==
    IF least_recent \in 0..S.cache_lines - 1
    THEN [S EXCEPT !.cache_time = line.entry_time, !.LRU_cache[least_recent] = line]
    ELSE [S EXCEPT !.cache_time = line.entry_time, !.fault = TRUE]

\* lcloud_putcache(did, sec, blk, block); uninit is the indeterminate value of
\* the uninitialised local least_recent
lcloud_putcache(S, did, sec, blk, block, uninit) ==
    IF S.cache_lines > 0 /\ S.LRU_cache \in { NULL, FREED } THEN [S EXCEPT !.fault = TRUE]
    ELSE
    PutCacheAt(Logged(S, [ev |-> "put", key |-> <<did, sec % 65536, blk % 65536>>]),
               PutScan(S.LRU_cache, S.cache_lines, 0, did, sec, blk, S.cache_time, uninit),
               [ buffer |-> CacheCopy(block), entry_time |-> S.cache_time + 1,
                 dev_id |-> did, sec |-> sec % 65536, blk |-> blk % 65536 ])

\* lcloud_closecache(): the line array is freed, the tallies are reported
\* A second free of the same array, of whatever length, is undefined;
\* free(NULL) does nothing.
lcloud_closecache(S) ==
    IF S.LRU_cache = FREED THEN [S EXCEPT !.fault = TRUE]
    ELSE Logged([S EXCEPT !.LRU_cache = IF S.LRU_cache = NULL THEN NULL ELSE FREED],
                [ev |-> "report", hits |-> S.hits, misses |-> S.misses])

----------------------------------------------------------------------------
(* The storage controller at the far end of the connection (environment)   *)

\* descriptor as device_power_on initialises it
FreshBlock == [ next_sector |-> NONE, next_block |-> NONE, next_dev_id |-> NONE, used |-> 0 ]

\* block keys of a controller configuration cfg: device id -> [sectors, blocks]
KeysOf(cfg) ==
    UNION { { <<d, s, b>> : s \in 0..cfg[d].sectors - 1, b \in 0..cfg[d].blocks - 1 }
            : d \in DOMAIN cfg }

RECURSIVE Pow2(_)
Pow2(n) == IF n = 0 THEN 1 ELSE 2 * Pow2(n - 1)

\* the probe bitmask: bit d set for every device id d of ids
RECURSIVE SumMask(_)
SumMask(ids) ==
    IF ids = {} THEN 0
    ELSE SumMask(ids \ {CHOOSE x \in ids : \A y \in ids : x <= y})
         + Pow2(CHOOSE x \in ids : \A y \in ids : x <= y)

\* D0 of the controller's response to request registers r
RespondD0(cfg, r) ==
    IF r.c0 = LC_DEVPROBE THEN SumMask(DOMAIN cfg)
    ELSE IF r.c0 = LC_DEVINIT /\ r.c1 \in DOMAIN cfg THEN cfg[r.c1].sectors
    ELSE r.d0

\* D1 of the controller's response to request registers r
RespondD1(cfg, r) ==
    IF r.c0 = LC_DEVINIT /\ r.c1 \in DOMAIN cfg THEN cfg[r.c1].blocks ELSE r.d1

\* B0, B1 and C0 of a response of the kind the environment chose: "ok" has
\* B0 = B1 = 1, "nak" B1 = 0, "ones" B0 = B1 = 15, "wrongop" another opcode
AckB0(kind) == IF kind = "ones" THEN 15 ELSE 1
AckB1(kind) == IF kind = "nak" THEN 0 ELSE IF kind = "ones" THEN 15 ELSE 1
AckC0(kind, c0) == IF kind = "wrongop" THEN (c0 + 1) % 256 ELSE c0

\* the response frame of the controller to request registers r, given the
\* kind of answer the environment chose
Respond(B, r, kind) ==
    create_lcloud_registers(AckB0(kind), AckB1(kind), AckC0(kind, r.c0), r.c1, r.c2,
                            RespondD0(B.config, r), RespondD1(B.config, r))

----------------------------------------------------------------------------
(* Bus transport (lcloud_client.c) *)

\* the environment's answer to the request being made: S.env.at numbers the
\* request of this call that goes wrong, S.env.kind says how
Outcome(S) == IF S.nreq + 1 = S.env.at THEN S.env.kind ELSE "ok"

\* one socket call of the transport: connect, write or read of so many
\* bytes, close; done is FALSE when a write or read came short
WireCall(call, bytes) == [call |-> call, bytes |-> bytes, done |-> TRUE]

\* sizeof(nbo), the bytes of a frame on the wire
FRAME_BYTES == 8


\* a transport that sends the payload of a block-write after reading the
\* response; WireSequenceByOpcode does not hold of it
WireStepsPayloadLast(r) ==
    IF r.c0 = LC_BLOCK_XFER
    THEN << WireCall("write", FRAME_BYTES), WireCall("read", FRAME_BYTES),
            WireCall(IF r.c2 = LC_XFER_READ THEN "read" ELSE "write",
                     LC_DEVICE_BLOCK_SIZE) >>
    ELSE << WireCall("write", FRAME_BYTES), WireCall("read", FRAME_BYTES) >>

\* the writes and reads of client_lcloud_bus_request for request registers r
WireSteps(r) ==
    IF r.c0 = LC_BLOCK_XFER /\ r.c2 = LC_XFER_READ
    THEN << WireCall("write", FRAME_BYTES), WireCall("read", FRAME_BYTES),
            WireCall("read", LC_DEVICE_BLOCK_SIZE) >>
    ELSE IF r.c0 = LC_BLOCK_XFER /\ r.c2 = LC_XFER_WRITE
    THEN << WireCall("write", FRAME_BYTES), WireCall("write", LC_DEVICE_BLOCK_SIZE),
            WireCall("read", FRAME_BYTES) >>
    ELSE << WireCall("write", FRAME_BYTES), WireCall("read", FRAME_BYTES) >>

\* the write or read of an exchange that comes short under an answer of the
\* kind given, 0 when none does
FailStep(kind) ==
    IF kind = "io" THEN 1 ELSE IF kind = "io2" THEN 2 ELSE IF kind = "io3" THEN 3 ELSE 0

\* a write or read of the exchange for r comes short: the transport returns -1
TransportFails(r, kind) == FailStep(kind) \in 1..Len(WireSteps(r))

\* the socket calls of one request made in state S, in order
WireOf(S, r, kind) ==
    (IF S.socket_handle = -1 THEN << WireCall("connect", 0) >> ELSE << >>)
    \o (IF TransportFails(r, kind)
        THEN [ i \in 1..FailStep(kind) |->
                 [WireSteps(r)[i] EXCEPT !.done = (i < FailStep(kind))] ]
        ELSE WireSteps(r))
    \o (IF r.c0 = LC_POWER_OFF /\ ~TransportFails(r, kind)
        THEN << WireCall("close", 0) >> ELSE << >>)

\* the controller has received frame and payload of a block-write and stores
\* the payload: it acknowledges, or only the read of its response comes short
PayloadStored(kind) == kind \in { "ok", "ones" } \/ FailStep(kind) = 3

\* the four wire sequences of client_lcloud_bus_request, S1 being the state
\* with the connection made, r the request registers, key the block addressed
BusExchange(S1, r, key, kind, buf) ==
    IF r.c0 = LC_BLOCK_XFER /\ r.c2 = LC_XFER_READ
    THEN IF TransportFails(r, kind)
         THEN [ S |-> S1, rfrm |-> FRAME_MINUS1, buf |-> buf ]
         ELSE [ S |-> S1, rfrm |-> Respond(S1.bus, r, kind),
                buf |-> IF key \in DOMAIN S1.bus.store THEN S1.bus.store[key] ELSE buf ]
    ELSE IF r.c0 = LC_BLOCK_XFER /\ r.c2 = LC_XFER_WRITE
    THEN [ S |-> IF PayloadStored(kind) /\ key \in DOMAIN S1.bus.store
                 THEN [S1 EXCEPT !.bus.store[key] = buf]
                 ELSE S1,
           rfrm |-> IF TransportFails(r, kind) THEN FRAME_MINUS1
                    ELSE Respond(S1.bus, r, kind),
           buf |-> buf ]
    ELSE IF TransportFails(r, kind)
    THEN [ S |-> S1, rfrm |-> FRAME_MINUS1, buf |-> buf ]
    ELSE IF r.c0 = LC_POWER_OFF
    THEN [ S |-> [S1 EXCEPT !.socket_handle = -1, !.bus.linked = FALSE],
           rfrm |-> Respond(S1.bus, r, kind), buf |-> buf ]
    ELSE [ S |-> S1, rfrm |-> Respond(S1.bus, r, kind), buf |-> buf ]


\* a transport that does not keep the handle of the connection it made;
\* ConnectionLifecycle does not hold of it
ConnectedNotKept(S) == [S EXCEPT !.nreq = S.nreq + 1]

\* ways the connection setup can fail: in inet_aton, in socket(), in connect()
SetupKinds == { "noaddr", "nosock", "noconn" }

\* what becomes of the request being made.  With no handle held it is the
\* environment's choice.  With a handle held no setup is run, so a setup
\* failure cannot happen; and when the handle is that of a socket that never
\* connected (bus.linked is FALSE), the first write to it raises SIGPIPE,
\* whose disposition the code leaves at the default: the process ends.
Answer(S) ==
    IF S.socket_handle = -1 THEN Outcome(S)
    ELSE IF ~S.bus.linked THEN "pipe"
    ELSE IF Outcome(S) \in SetupKinds THEN "ok"
    ELSE Outcome(S)

\* the connection step of client_lcloud_bus_request
Connected(S) ==
    [S EXCEPT !.socket_handle = IF S.socket_handle = -1 THEN SOCKET_FD
                                ELSE S.socket_handle,
              !.bus.linked = IF S.socket_handle = -1 THEN TRUE ELSE @,
              !.nreq = S.nreq + 1]

\* the connection step failing: socket_handle holds what socket() returned
\* when that call was reached, the descriptor of the socket when connect()
\* failed and -1 when socket() failed
SetupFailed(S, kind) ==
    [S EXCEPT !.socket_handle = IF kind = "noconn" THEN SOCKET_FD ELSE -1,
              !.nreq = S.nreq + 1]

\* a write or read of logged request e came short, or its setup failed
WireCutShort(e) == \E n \in 1..Len(e.wire) : ~e.wire[n].done

\* the block a request's registers address
KeyOf(r) == <<r.c1, r.d0, r.d1>>

\* client_lcloud_bus_request(reg, buf): [S, rfrm, buf]
client_lcloud_bus_request(S, reg, buf) ==
    IF Answer(S) \in SetupKinds
    THEN [ S |-> Logged(SetupFailed(S, Answer(S)),
                        [ev |-> "req", reg |-> extract_lcloud_registers(reg),
                         kind |-> Answer(S),
                         wire |-> << [WireCall("connect", 0) EXCEPT !.done = FALSE] >>]),
           rfrm |-> FRAME_MINUS1, buf |-> buf ]
    ELSE IF Answer(S) = "pipe"
    THEN [ S |-> Logged([S EXCEPT !.fault = TRUE, !.nreq = S.nreq + 1],
                        [ev |-> "req", reg |-> extract_lcloud_registers(reg),
                         kind |-> Answer(S),
                         wire |-> << [WireCall("write", FRAME_BYTES) EXCEPT !.done = FALSE] >>]),
           rfrm |-> FRAME_MINUS1, buf |-> buf ]
    ELSE
    BusExchange(Logged(Connected(S),
                       [ev |-> "req", reg |-> extract_lcloud_registers(reg),
                        kind |-> Answer(S),
                        wire |-> WireOf(S, extract_lcloud_registers(reg), Answer(S))]),
                extract_lcloud_registers(reg),
                KeyOf(extract_lcloud_registers(reg)), Answer(S), buf)

\* (b0 != 1) || (b1 != 1) || (c0 != op) on the extracted registers r
AckRejected(r, op) == r.b0 # 1 \/ r.b1 # 1 \/ r.c0 # op

\* (frm == -1) || (rfrm == -1) || (b0 != 1) || (b1 != 1) || (c0 != op)
RequestFailed(frm, rfrm, op) ==
    \/ frm = FRAME_MINUS1
    \/ rfrm = FRAME_MINUS1
    \/ AckRejected(extract_lcloud_registers(rfrm), op)

----------------------------------------------------------------------------
(* File system (lcloud_filesys.c): helpers *)

\* an entry of the zero-initialised global files[]
ZeroFile ==
    [ fh |-> 0, name |-> <<>>, pos |-> 0, size |-> 0, block |-> 0, sector |-> 0,
      dev_id |-> 0, opened |-> 0 ]

\* an entry of the zero-initialised global devices[]; sector_block is NULL
ZeroDevice == [ dev_id |-> 0, sectors |-> 0, blocks |-> 0, sector_block |-> <<>> ]


\* a device structure with the two counts exchanged;
\* DeviceTableAfterPowerOn does not hold of it
NewDeviceTransposed(id, r) ==
    [ dev_id |-> id, sectors |-> r.d1, blocks |-> r.d0,
      sector_block |-> [ k \in (0..r.d1 - 1) \X (0..r.d0 - 1) |-> FreshBlock ] ]

\* the device structure built from the registers r of a device-init response
NewDevice(id, r) ==
    [ dev_id |-> id, sectors |-> r.d0, blocks |-> r.d1,
      sector_block |-> [ k \in (0..r.d0 - 1) \X (0..r.d1 - 1) |-> FreshBlock ] ]

\* the frames device_power_on sends
PowerOnFrame == create_lcloud_registers(0, 0, LC_POWER_ON, 0, 0, 0, 0)
ProbeFrame == create_lcloud_registers(0, 0, LC_DEVPROBE, 0, 0, 0, 0)
InitFrame(id) == create_lcloud_registers(0, 0, LC_DEVINIT, id, 0, 0, 0)

\* the loop of device_power_on over the 16 bits of the probe response
RECURSIVE InitDevices(_, _, _)

\* a device was found at id and its device-init request rq was answered
InitDevice(id, probe, rq) ==
    IF RequestFailed(InitFrame(id), rq.rfrm, LC_DEVINIT)
    THEN [ S |-> rq.S, ret |-> -1 ]
    ELSE InitDevices([rq.S EXCEPT !.devices[id] =
                                      NewDevice(id, extract_lcloud_registers(rq.rfrm))],
                     id + 1, probe \div 2)

InitDevices(S, id, probe) ==
    IF id >= LC_MAX_DEVICES THEN [ S |-> S, ret |-> 0 ]
    ELSE IF probe % 2 = 1
    THEN InitDevice(id, probe, client_lcloud_bus_request(S, InitFrame(id), <<>>))
    ELSE InitDevices([S EXCEPT !.devices[id].dev_id = NONE], id + 1, probe \div 2)

\* a power-on that goes on after a device-init failed;
\* PowerOnFailureFailsOpen does not hold of it
PowerOnDoneAnyway(inits) ==
    [ S |-> lcloud_initcache(inits.S, LC_CACHE_MAXBLOCKS), ret |-> 0 ]

\* device_power_on after the device loop
PowerOnDone(inits) ==
    IF inits.ret = -1 THEN inits
    ELSE [ S |-> lcloud_initcache(inits.S, LC_CACHE_MAXBLOCKS), ret |-> 0 ]

\* device_power_on after the probe request rq
PowerOnProbed(rq) ==
    IF RequestFailed(ProbeFrame, rq.rfrm, LC_DEVPROBE)
    THEN [ S |-> rq.S, ret |-> -1 ]
    ELSE PowerOnDone(InitDevices(rq.S, 0, extract_lcloud_registers(rq.rfrm).d0))

\* device_power_on after the power-on request rq
PowerOnAcked(rq) ==
    IF RequestFailed(PowerOnFrame, rq.rfrm, LC_POWER_ON)
    THEN [ S |-> rq.S, ret |-> -1 ]
    ELSE PowerOnProbed(client_lcloud_bus_request(rq.S, ProbeFrame, <<>>))

\* device_power_on(): [S, ret]
device_power_on(S) == PowerOnAcked(client_lcloud_bus_request(S, PowerOnFrame, <<>>))

\* the upper limit of validate_fh: a handle above it is rejected
FhLimit(S) == S.file_handle

\* validate_fh(fh, &file): 0 and the file, or -1.  A negative handle indexes
\* files[] out of bounds.
validate_fh(S, fh) ==
    IF fh > FhLimit(S) THEN [ ret |-> -1, file |-> ZeroFile, fault |-> FALSE ]
    ELSE IF fh \notin DOMAIN S.files THEN [ ret |-> -1, file |-> ZeroFile, fault |-> TRUE ]
    ELSE IF S.files[fh].opened = 0 THEN [ ret |-> -1, file |-> ZeroFile, fault |-> FALSE ]
    ELSE [ ret |-> 0, file |-> S.files[fh], fault |-> FALSE ]

\* the order in which allocate_block scans: device id, then sector, then block
KeyBefore(a, b) ==
    \/ a[1] < b[1]
    \/ a[1] = b[1] /\ a[2] < b[2]
    \/ a[1] = b[1] /\ a[2] = b[2] /\ a[3] < b[3]

\* the descriptors of the devices that are on
PresentKeys(devs) ==
    UNION { { <<id, x[1], x[2]>> : x \in DOMAIN devs[id].sector_block }
            : id \in { d \in 0..LC_MAX_DEVICES - 1 : devs[d].dev_id # NONE } }

\* the descriptors allocate_block may hand out
FreeKeys(devs) ==
    { k \in PresentKeys(devs) : devs[k[1]].sector_block[<<k[2], k[3]>>].used = 0 }


\* an allocator that takes the last unused descriptor of the scan order;
\* FirstFitAllocation does not hold of it
PickFreeLast(free) == CHOOSE k \in free : \A o \in free : o = k \/ KeyBefore(o, k)

\* the descriptor allocate_block picks among the free ones
PickFree(free) == CHOOSE k \in free : \A o \in free : o = k \/ KeyBefore(k, o)


\* an allocator that hands out a descriptor without marking it used;
\* ChainsDisjointAndAcyclic does not hold of it
AllocatedUnmarked(S, k) == [ S |-> S, ret |-> k[1], sec |-> k[2], blk |-> k[3] ]

\* allocate_block hands out descriptor k
Allocated(S, k) ==
    [ S |-> [S EXCEPT !.devices[k[1]].sector_block[<<k[2], k[3]>>].used = 1],
      ret |-> k[1], sec |-> k[2], blk |-> k[3] ]

\* an allocator that hands out the first descriptor again when none is free;
\* ExhaustionFailsCleanly does not hold of it
AllocateReusing(S) ==
    IF PresentKeys(S.devices) = {}
    THEN [ S |-> S, ret |-> -1, sec |-> INDETERMINATE, blk |-> INDETERMINATE ]
    ELSE IF FreeKeys(S.devices) = {}
    THEN Allocated(S, PickFree(PresentKeys(S.devices)))
    ELSE Allocated(S, PickFree(FreeKeys(S.devices)))

\* the devices whose grid was freed (sector_block is NULL) though they have
\* sectors and blocks: the scan of allocate_block dereferences NULL at them
FreedGrids(devs) ==
    { id \in 0..LC_MAX_DEVICES - 1 :
        /\ devs[id].dev_id # NONE
        /\ devs[id].sectors > 0 /\ devs[id].blocks > 0
        /\ devs[id].sector_block = <<>> }

\* the scan of allocate_block comes to a freed grid before a free descriptor
ScanMeetsFreed(devs) ==
    \E id \in FreedGrids(devs) : \A k \in FreeKeys(devs) : id < k[1]

\* allocate_block(&sec, &blk): [S, ret, sec, blk]
allocate_block(S) ==
    IF ScanMeetsFreed(S.devices)
    THEN [ S |-> [S EXCEPT !.fault = TRUE], ret |-> -1,
           sec |-> INDETERMINATE, blk |-> INDETERMINATE ]
    ELSE IF FreeKeys(S.devices) = {}
    THEN [ S |-> S, ret |-> -1, sec |-> INDETERMINATE, blk |-> INDETERMINATE ]
    ELSE Allocated(S, PickFree(FreeKeys(S.devices)))

\* the do-while loop of get_block; next_dev is the index devices[] was read at
RECURSIVE GetBlockWalk(_, _, _, _, _, _)

\* one round of the loop, d being the descriptor of the current block
GetBlockStep(devs, curr_dev, curr_sec, curr_blk, i, pos, d) ==
    IF i + LC_DEVICE_BLOCK_SIZE <= pos
    THEN GetBlockWalk(devs, d.next_dev_id, d.next_sector, d.next_block,
                      i + LC_DEVICE_BLOCK_SIZE, pos)
    ELSE [ ret |-> devs[curr_dev].dev_id, sec |-> curr_sec, blk |-> curr_blk,
           fault |-> FALSE ]

GetBlockWalk(devs, next_dev, next_sec, next_blk, i, pos) ==
    IF next_sec = -1 \/ next_blk = -1
    THEN [ ret |-> -1, sec |-> INDETERMINATE, blk |-> INDETERMINATE, fault |-> FALSE ]
    ELSE IF \/ next_dev \notin 0..LC_MAX_DEVICES - 1
            \/ <<next_sec, next_blk>> \notin DOMAIN devs[next_dev].sector_block
    THEN [ ret |-> -1, sec |-> INDETERMINATE, blk |-> INDETERMINATE, fault |-> TRUE ]
    ELSE GetBlockStep(devs, next_dev, next_sec, next_blk, i, pos,
                      devs[next_dev].sector_block[<<next_sec, next_blk>>])


\* the indexes at which the loop of get_block reads devices[]: in each round
\* the next_dev_id of the current block, whether or not a block follows
RECURSIVE WalkIndexes(_, _, _, _, _, _)
WalkIndexes(devs, next_dev, next_sec, next_blk, i, pos) ==
    IF next_sec = -1 \/ next_blk = -1 THEN {}
    ELSE IF \/ next_dev \notin 0..LC_MAX_DEVICES - 1
            \/ <<next_sec, next_blk>> \notin DOMAIN devs[next_dev].sector_block
    THEN {}
    ELSE { devs[next_dev].sector_block[<<next_sec, next_blk>>].next_dev_id } \cup
         IF i + LC_DEVICE_BLOCK_SIZE <= pos
         THEN WalkIndexes(devs,
                          devs[next_dev].sector_block[<<next_sec, next_blk>>].next_dev_id,
                          devs[next_dev].sector_block[<<next_sec, next_blk>>].next_sector,
                          devs[next_dev].sector_block[<<next_sec, next_blk>>].next_block,
                          i + LC_DEVICE_BLOCK_SIZE, pos)
         ELSE {}

\* the indexes at which get_block(file, &sec, &blk) reads devices[]
GetBlockIndexes(devs, file) ==
    { file.dev_id } \cup
    WalkIndexes(devs, file.dev_id, file.sector, file.block, 0, file.pos)

\* get_block(file, &sec, &blk): [ret, sec, blk, fault]
get_block(S, file) ==
    GetBlockWalk(S.devices, file.dev_id, file.sector, file.block, 0, file.pos)


\* an add_block that releases the block it unlinks; BlockPermanence does not
\* hold of it
LinkBlockReleasing(g, a) ==
    IF a.ret = -1 THEN [ S |-> a.S, ret |-> -1 ]
    ELSE LET d == a.S.devices[g.ret].sector_block[<<g.sec, g.blk>>]
             FormerSuccessor ==
                 IF d.next_sector # NONE /\ d.next_block # NONE
                 THEN { <<d.next_dev_id, d.next_sector, d.next_block>> } ELSE {}
         IN
         [ S |-> [a.S EXCEPT
                    !.devices = [ id \in DOMAIN @ |->
                        [ @[id] EXCEPT !.sector_block = [ x \in DOMAIN @ |->
                            IF <<id, x[1], x[2]>> \in FormerSuccessor
                            THEN [ @[x] EXCEPT !.used = 0 ]
                            ELSE IF id = g.ret /\ x = <<g.sec, g.blk>>
                            THEN [ @[x] EXCEPT !.next_sector = a.sec, !.next_block = a.blk,
                                               !.next_dev_id = a.ret ]
                            ELSE @[x] ] ] ] ],
           ret |-> 0 ]

\* add_block links the block a allocated behind the last block g
LinkBlock(g, a) ==
    IF a.ret = -1 THEN [ S |-> a.S, ret |-> -1 ]
    ELSE [ S |-> [a.S EXCEPT
                    !.devices[g.ret].sector_block[<<g.sec, g.blk>>] =
                        [@ EXCEPT !.next_sector = a.sec, !.next_block = a.blk,
                                  !.next_dev_id = a.ret]],
           ret |-> 0 ]

\* add_block after get_block returned g
AddBlockAt(S, g) ==
    IF g.fault THEN [ S |-> [S EXCEPT !.fault = TRUE], ret |-> -1 ]
    ELSE IF g.ret = -1 THEN [ S |-> S, ret |-> -1 ]
    ELSE LinkBlock(g, allocate_block(S))

\* add_block(file): [S, ret]
add_block(S, file) == AddBlockAt(S, get_block(S, [file EXCEPT !.pos = file.pos - 1]))

\* unsigned comparison a > b of two values of one width, given as signed ints
UnsignedGreater(a, b) == IF (a < 0) = (b < 0) THEN a > b ELSE a < 0

\* bytes moved in one round of the block loop of lcread and lcwrite
ChunkLen(pos_in_block, i, len) ==
    IF pos_in_block = 0
    THEN IF len - i < LC_DEVICE_BLOCK_SIZE THEN len - i ELSE LC_DEVICE_BLOCK_SIZE
    ELSE IF len + pos_in_block - i < LC_DEVICE_BLOCK_SIZE THEN len - i
         ELSE LC_DEVICE_BLOCK_SIZE - pos_in_block

\* the block-transfer frame for the block get_block returned as g
XferFrame(g, dir) ==
    create_lcloud_registers(0, 0, LC_BLOCK_XFER, g.ret, dir, g.sec, g.blk)

----------------------------------------------------------------------------
(* File system (lcloud_filesys.c): the programmatic surface *)

\* address of the array files[fh].name
NameAddr(fh) == <<"files", fh>>

\* files[fh].name == path: what lcopen compares
SamePath(S, fh, path) == NameAddr(fh) = path.addr

\* strncpy(file.name, path, 259); file.name[259] = '\0'
CopyName(str) == SubSeq(str, 1, Min(Len(str), 259))

\* the lookup loop of lcopen: the first handle whose name compares equal, -1 when none
RECURSIVE OpenScan(_, _, _)
OpenScan(S, fh, path) ==
    IF fh >= S.file_handle THEN -1
    ELSE IF SamePath(S, fh, path) THEN fh
    ELSE OpenScan(S, fh + 1, path)

\* the tracker after the increment taken as the handle; HandlesDense does
\* not hold of it
NewHandleIncremented(old_file_handle) == old_file_handle + 1

\* the handle lcopen files a new file under and returns, given the tracker
\* before the increment
NewHandle(old_file_handle) == old_file_handle

\* the local lcloud_file lcopen fills in; dev_id, sector and block stay unset
NewFile(tracker, path) ==
    [ fh |-> tracker, name |-> CopyName(path.str), pos |-> 0, size |-> 0,
      block |-> INDETERMINATE, sector |-> INDETERMINATE, dev_id |-> INDETERMINATE,
      opened |-> 1 ]

\* lcopen creates the file under handle fh
OpenNew(S, fh, path) ==
    [ S |-> [S EXCEPT !.file_handle = S.file_handle + 1,
                      !.files[fh] = NewFile(S.file_handle + 1, path)],
      ret |-> fh ]

\* lcopen after the lookup loop ended with found
OpenFound(S, found, path) ==
    IF found >= 0
    THEN IF S.files[found].opened = 1
         THEN [ S |-> S, ret |-> -1 ]
         ELSE [ S |-> [S EXCEPT !.files[found].pos = 0, !.files[found].opened = 1],
                ret |-> found ]
    ELSE OpenNew(S, NewHandle(S.file_handle), path)

\* lcopen after the power-on step
OpenPowered(pw, path) ==
    IF pw.ret = -1 THEN [ S |-> pw.S, ret |-> -1 ]
    ELSE OpenFound(pw.S, OpenScan(pw.S, 0, path), path)

\* lcopen(path): [S, ret]
lcopen(S, path) ==
    OpenPowered(IF S.file_handle = 0 THEN device_power_on(S) ELSE [ S |-> S, ret |-> 0 ],
                path)

\* the comparison with a signed offset and no test for a negative one;
\* SeekBounds does not hold of it
SeekOutOfRangeSigned(off, size) == off > size

\* (off < 0) || (off > file.size), off being a size_t
SeekOutOfRange(off, size) == UnsignedGreater(off, size)

\* lcseek after validate_fh returned v
SeekValidated(S, fh, off, v) ==
    IF v.fault THEN [ S |-> [S EXCEPT !.fault = TRUE], ret |-> -1 ]
    ELSE IF v.ret = -1 THEN [ S |-> S, ret |-> -1 ]
    ELSE IF SeekOutOfRange(off, v.file.size) THEN [ S |-> S, ret |-> -1 ]
    ELSE [ S |-> [S EXCEPT !.files[fh] = [v.file EXCEPT !.pos = off]], ret |-> off ]

\* lcseek(fh, off): [S, ret]
lcseek(S, fh, off) == SeekValidated(S, fh, off, validate_fh(S, fh))

\* a close that also rewinds the file; CloseFlipsOpenFlagOnly does not hold
\* of it
CloseRewinding(S, fh, v) ==
    IF v.ret = -1 THEN [ S |-> S, ret |-> -1 ]
    ELSE [ S |-> [S EXCEPT !.files[fh] = [v.file EXCEPT !.opened = 0, !.pos = 0]],
           ret |-> 0 ]

\* lcclose after validate_fh returned v
CloseValidated(S, fh, v) ==
    IF v.fault THEN [ S |-> [S EXCEPT !.fault = TRUE], ret |-> -1 ]
    ELSE IF v.ret = -1 THEN [ S |-> S, ret |-> -1 ]
    ELSE IF v.file.opened = 0 THEN [ S |-> S, ret |-> -1 ]
    ELSE [ S |-> Logged([S EXCEPT !.files[fh] = [v.file EXCEPT !.opened = 0]],
                        [ev |-> "close", fh |-> fh]),
           ret |-> 0 ]

\* lcclose(fh): [S, ret]
lcclose(S, fh) == CloseValidated(S, fh, validate_fh(S, fh))

\* pos_in_block = file.pos % 256
PosInBlock(file) == file.pos % LC_DEVICE_BLOCK_SIZE

\* the while loop of lcread; file is the local copy, i the bytes delivered
RECURSIVE ReadLoop(_, _, _, _, _, _)

\* the end of a round: n bytes of temp go to buf[i..], the head moves by n
ReadCopy(S, fh, file, i, buf, len, temp, n) ==
    ReadLoop(S, fh, [file EXCEPT !.pos = file.pos + n], i + n,
             Memcpy(buf, i, SubSeq(temp, PosInBlock(file) + 1,
                                   PosInBlock(file) + n), n),
             len)

\* a read that inserts the block it fetched; ReadNeverFillsCache does not
\* hold of it
ReadFetchedFilling(fh, file, i, buf, len, g, rq) ==
    IF RequestFailed(XferFrame(g, LC_XFER_READ), rq.rfrm, LC_BLOCK_XFER)
    THEN [ S |-> rq.S, ret |-> -1, buf |-> buf ]
    ELSE ReadCopy(lcloud_putcache(rq.S, g.ret, g.sec, g.blk, rq.buf, INDETERMINATE),
                  fh, file, i, buf, len, rq.buf,
                  ChunkLen(PosInBlock(file), i, len))

\* the block was not in the cache and the read request rq was answered
ReadFetched(fh, file, i, buf, len, g, rq) ==
    IF RequestFailed(XferFrame(g, LC_XFER_READ), rq.rfrm, LC_BLOCK_XFER)
    THEN [ S |-> rq.S, ret |-> -1, buf |-> buf ]
    ELSE ReadCopy(rq.S, fh, file, i, buf, len, rq.buf,
                  ChunkLen(PosInBlock(file), i, len))

\* the cache was asked for the block and answered c
ReadCached(fh, file, i, buf, len, g, c) ==
    IF c.found
    THEN ReadCopy(c.S, fh, file, i, buf, len, MemcpyBlock(c.buffer),
                  ChunkLen(PosInBlock(file), i, len))
    ELSE ReadFetched(fh, file, i, buf, len, g,
                     client_lcloud_bus_request(c.S, XferFrame(g, LC_XFER_READ), ZeroBlock))

\* get_block returned g
ReadBlock(S, fh, file, i, buf, len, g) ==
    IF g.fault THEN [ S |-> [S EXCEPT !.fault = TRUE], ret |-> -1, buf |-> buf ]
    ELSE IF g.ret = -1 THEN [ S |-> S, ret |-> -1, buf |-> buf ]
    ELSE ReadCached(fh, file, i, buf, len, g, lcloud_getcache(S, g.ret, g.sec, g.blk))

ReadLoop(S, fh, file, i, buf, len) ==
    IF i >= len
    THEN [ S |-> [S EXCEPT !.files[fh] = file], ret |-> len, buf |-> buf ]
    ELSE ReadBlock(S, fh, file, i, buf, len, get_block(S, file))

\* the length lcread serves: len cut down to the rest of the file
ReadClamp(file, len) ==
    IF file.pos + len > file.size THEN file.size - file.pos ELSE len

\* lcread after validate_fh returned v
ReadValidated(S, fh, buf, len, v) ==
    IF v.fault THEN [ S |-> [S EXCEPT !.fault = TRUE], ret |-> -1, buf |-> buf ]
    ELSE IF v.ret = -1 THEN [ S |-> S, ret |-> -1, buf |-> buf ]
    ELSE IF v.file.size = 0 THEN [ S |-> S, ret |-> 0, buf |-> buf ]
    ELSE ReadLoop(S, fh, v.file, 0, buf, ReadClamp(v.file, len))

\* lcread(fh, buf, len): [S, ret, buf]
lcread(S, fh, buf, len) == ReadValidated(S, fh, buf, len, validate_fh(S, fh))

\* the size set to the write head whatever the size was; WriteAdvances does
\* not hold of it
GrownSizeAlways(pos, size) == pos

\* the size lcwrite records once the write head is at pos
GrownSize(pos, size) == IF pos >= size THEN pos ELSE size

\* a write that never asks for a further block; ChainLengthIsFloorPlusOne
\* does not hold of it
NeedsBlockNever(pos, size) == FALSE

\* the write ended at the end of the file and on a block boundary
NeedsBlock(pos, size) == pos >= size /\ pos % LC_DEVICE_BLOCK_SIZE = 0

\* the while loop of lcwrite; file is the local copy, i the bytes written
RECURSIVE WriteLoop(_, _, _, _, _, _)

\* files[fh] = file, and the next round
WriteNext(S, fh, file, i, buf, len) ==
    WriteLoop([S EXCEPT !.files[fh] = file], fh, file, i, buf, len)

\* add_block returned ab
WriteGrown(fh, file, i, buf, len, ab) ==
    IF ab.ret = -1 THEN [ S |-> ab.S, ret |-> -1 ]
    ELSE WriteNext(ab.S, fh, file, i, buf, len)

\* the size is recorded in the local copy file, grow says whether a block is due
WriteSized(S, fh, file, i, buf, len, grow) ==
    IF grow THEN WriteGrown(fh, file, i, buf, len, add_block(S, file))
    ELSE WriteNext(S, fh, file, i, buf, len)

\* lcloud_putcache left the state S
WriteCached(S, fh, file, i, buf, len) ==
    IF S.fault THEN [ S |-> S, ret |-> -1 ]
    ELSE WriteSized(S, fh, [file EXCEPT !.size = GrownSize(file.pos, file.size)],
                    i, buf, len, NeedsBlock(file.pos, file.size))

\* a write that fills the cache before it looks at the acknowledgement;
\* WriteThroughOrdering does not hold of it
WriteSentCachingFirst(fh, file, i, buf, len, g, temp, rq) ==
    IF RequestFailed(XferFrame(g, LC_XFER_WRITE), rq.rfrm, LC_BLOCK_XFER)
    THEN [ S |-> lcloud_putcache(rq.S, g.ret, g.sec, g.blk, temp, INDETERMINATE),
           ret |-> -1 ]
    ELSE WriteCached(lcloud_putcache(rq.S, g.ret, g.sec, g.blk, temp, INDETERMINATE),
                     fh, file, i, buf, len)

\* the write request rq for the block g was answered
WriteSent(fh, file, i, buf, len, g, temp, rq) ==
    IF RequestFailed(XferFrame(g, LC_XFER_WRITE), rq.rfrm, LC_BLOCK_XFER)
    THEN [ S |-> rq.S, ret |-> -1 ]
    ELSE WriteCached(lcloud_putcache(rq.S, g.ret, g.sec, g.blk, temp, INDETERMINATE),
                     fh, file, i, buf, len)

\* temp holds the block with the caller's n bytes spliced in
WriteSpliced(S, fh, file, i, buf, len, g, temp) ==
    WriteSent(fh, file, i, buf, len, g, temp,
              client_lcloud_bus_request(S, XferFrame(g, LC_XFER_WRITE), temp))

\* lcseek and lcread filled temp as rd; n bytes of buf[i..] go into it
WriteRead(fh, file, i, buf, len, g, rd, n) ==
    IF rd.S.fault THEN [ S |-> rd.S, ret |-> -1 ]
    ELSE WriteSpliced(rd.S, fh, [file EXCEPT !.pos = file.pos + n], i + n, buf, len, g,
                      Memcpy(rd.buf, PosInBlock(file),
                             SubSeq(buf, i + 1, i + n), n))

\* get_block returned g; the results of lcseek and lcread are not looked at
WriteBlock(S, fh, file, i, buf, len, g) ==
    IF g.fault THEN [ S |-> [S EXCEPT !.fault = TRUE], ret |-> -1 ]
    ELSE IF g.ret = -1 THEN [ S |-> S, ret |-> -1 ]
    ELSE WriteRead(fh, file, i, buf, len, g,
                   lcread(lcseek(S, fh, file.pos - PosInBlock(file)).S,
                          fh, ZeroBlock, LC_DEVICE_BLOCK_SIZE),
                   ChunkLen(PosInBlock(file), i, len))

WriteLoop(S, fh, file, i, buf, len) ==
    IF i >= len THEN [ S |-> S, ret |-> len ]
    ELSE WriteBlock(S, fh, file, i, buf, len, get_block(S, file))

\* lcwrite on a file of size 0, allocate_block having returned a
WriteFirst(fh, file, buf, len, a) ==
    IF a.ret = -1 THEN [ S |-> a.S, ret |-> -1 ]
    ELSE WriteLoop(a.S, fh,
                   [file EXCEPT !.dev_id = a.ret, !.sector = a.sec, !.block = a.blk],
                   0, buf, len)

\* lcwrite after validate_fh returned v
WriteValidated(S, fh, buf, len, v) ==
    IF v.fault THEN [ S |-> [S EXCEPT !.fault = TRUE], ret |-> -1 ]
    ELSE IF v.ret = -1 THEN [ S |-> S, ret |-> -1 ]
    ELSE IF v.file.size = 0 THEN WriteFirst(fh, v.file, buf, len, allocate_block(S))
    ELSE WriteLoop(S, fh, v.file, 0, buf, len)

\* lcwrite(fh, buf, len): [S, ret]
lcwrite(S, fh, buf, len) == WriteValidated(S, fh, buf, len, validate_fh(S, fh))

\* the frame lcshutdown sends
PowerOffFrame == create_lcloud_registers(0, 0, LC_POWER_OFF, 0, 0, 0, 0)

\* a shutdown that does not look at the acknowledgement;
\* ShutdownClosesThenPowersOff does not hold of it
ShutdownUnchecked(rq) == [ S |-> lcloud_closecache(rq.S), ret |-> 0 ]

\* the end of lcshutdown: the power-off request rq was answered
ShutdownAcked(rq) ==
    IF RequestFailed(PowerOffFrame, rq.rfrm, LC_POWER_OFF)
    THEN [ S |-> rq.S, ret |-> -1 ]
    ELSE [ S |-> lcloud_closecache(rq.S), ret |-> 0 ]

\* the second loop of lcshutdown: the grid of every device whose dev_id is
\* not -1 is freed and its pointer set to NULL
GridsFreed(devs) ==
    [ id \in 0..LC_MAX_DEVICES - 1 |->
        IF devs[id].dev_id # NONE THEN [devs[id] EXCEPT !.sector_block = <<>>]
        ELSE devs[id] ]

\* lcshutdown once every open file is closed
ShutdownClosed(S) ==
    ShutdownAcked(client_lcloud_bus_request([S EXCEPT !.devices = GridsFreed(S.devices)],
                                            PowerOffFrame, <<>>))

\* the first loop of lcshutdown, at file i
RECURSIVE ShutdownLoop(_, _)

\* file i is open and lcclose(i) returned c
ShutdownClose(i, c) ==
    IF c.ret = -1 THEN [ S |-> c.S, ret |-> -1 ] ELSE ShutdownLoop(c.S, i + 1)

ShutdownLoop(S, i) ==
    IF i >= S.file_handle THEN ShutdownClosed(S)
    ELSE IF S.files[i].opened = 1 THEN ShutdownClose(i, lcclose(S, i))
    ELSE ShutdownLoop(S, i + 1)

\* lcshutdown(): [S, ret]
lcshutdown(S) == ShutdownLoop(S, 0)

----------------------------------------------------------------------------
(* Inputs of the calls and answers of the environment *)

\* controller configurations: present device ids with their geometry
Configs ==
    { (0 :> [sectors |-> 1, blocks |-> 1]) @@ (2 :> [sectors |-> 2, blocks |-> 1]) }

\* file names callers use
Names == { <<97>> }

\* path arguments: the address of the caller's string and its characters
Paths == { [addr |-> <<"caller", n>>, str |-> n] : n \in Names }

\* write buffers: empty, one byte, with a zero byte inside, and a whole block
Bufs == { <<>>, <<7>>, <<1, 0, 2>>, Fill(LC_DEVICE_BLOCK_SIZE, 5) }

\* read lengths
ReadLens == { 2, LC_DEVICE_BLOCK_SIZE }

\* seek offsets tried on a file of the given size: below 0, the start, one
\* byte in, the end of the file and one past it
SeekOffs(size) == { -1, 0, 1, size, size + 1 }

\* handles passed by callers: a negative one, every assigned one, the next
\* one, and one beyond
Handles == -1..Min(file_handle + 1, MaxFiles)

\* the arguments that go with a handle: one choice with the negative handle
ReadLensFor(fh) == IF fh < 0 THEN { LC_DEVICE_BLOCK_SIZE } ELSE ReadLens
BufsFor(fh) == IF fh < 0 THEN { <<7>> } ELSE Bufs
SeekOffsFor(fh) == IF fh < 0 THEN { 0 } ELSE SeekOffs(files[fh].size)

\* the caller's buffer of n bytes before a read
CallerBuf(n) == Fill(n, 255)

\* ways a bus request can go wrong: malformed acknowledgement, transport failure
FailKinds == { "nak", "io" }

\* every request of the call is answered well
NoEnv == [at |-> 0, kind |-> "ok"]

Envs ==
    { NoEnv } \cup
    { [at |-> k, kind |-> x] : k \in 1..MaxFailAt, x \in FailKinds }

\* the environments tried with an open: the requests of the power-on sequence
OpenEnvs ==
    { NoEnv } \cup
    { [at |-> k, kind |-> x] : k \in 1..MaxOpenFailAt, x \in FailKinds }

\* the environments tried with a handle: one with the negative handle
EnvsFor(fh) == IF fh < 0 THEN { NoEnv } ELSE Envs

----------------------------------------------------------------------------
(* The state machine *)

\* the globals as one record, with the environment's choice for this call
Cur(env) ==
    [ file_handle |-> file_handle, files |-> files, devices |-> devices,
      LRU_cache |-> LRU_cache, cache_time |-> cache_time, hits |-> hits,
      misses |-> misses, cache_lines |-> cache_lines, socket_handle |-> socket_handle,
      bus |-> bus, fault |-> fault, nreq |-> 0, env |-> env, log |-> <<>> ]

Commit(S) ==
    /\ file_handle' = S.file_handle
    /\ files' = S.files
    /\ devices' = S.devices
    /\ LRU_cache' = S.LRU_cache
    /\ cache_time' = S.cache_time
    /\ hits' = S.hits
    /\ misses' = S.misses
    /\ cache_lines' = S.cache_lines
    /\ socket_handle' = S.socket_handle
    /\ bus' = S.bus
    /\ fault' = S.fault

\* the interface is idle: no call has returned a result not yet taken
Idle == lastOp.op = "none"

NoOp == [op |-> "none", fh |-> 0, n |-> 0, data |-> <<>>, env |-> NoEnv]

\* no lookup made yet
NoTally == [lookups |-> 0, found |-> 0, opened |-> FALSE]

\* the tally after the call op returned r: a lookup counts, and counts as
\* found when it returned a line; opened records that lcopen was called
Tallied(op, r) ==
    IF op.op = "lookup"
    THEN [tally EXCEPT !.lookups = @ + 1, !.found = @ + r.ret]
    ELSE IF op.op = "open" THEN [tally EXCEPT !.opened = TRUE]
    ELSE tally

\* the globals before any call
Boot ==
    [ file_handle |-> 0,
      files |-> [fh \in 0..MaxFiles |-> ZeroFile],
      devices |-> [id \in 0..LC_MAX_DEVICES - 1 |-> ZeroDevice],
      LRU_cache |-> NULL, cache_time |-> 0, hits |-> 0, misses |-> 0,
      cache_lines |-> 0, socket_handle |-> -1 ]

Init ==
    /\ file_handle = Boot.file_handle
    /\ files = Boot.files
    /\ devices = Boot.devices
    /\ LRU_cache = Boot.LRU_cache
    /\ cache_time = Boot.cache_time
    /\ hits = Boot.hits
    /\ misses = Boot.misses
    /\ cache_lines = Boot.cache_lines
    /\ socket_handle = Boot.socket_handle
    /\ bus \in { [config |-> c, store |-> [k \in KeysOf(c) |-> ZeroBlock], linked |-> FALSE] : c \in Configs }
    /\ fault = FALSE
    /\ lastOp = NoOp
    /\ ret = 0
    /\ out = <<>>
    /\ pre = <<>>
    /\ log = <<>>
    /\ tally = NoTally

\* a call of the surface: the globals change as the function leaves them, and
\* the call, its result, the bytes it delivered and the globals before it are
\* on record until Return
Call(op, r, buf) ==
    /\ Idle
    /\ ~fault
    /\ Commit(r.S)
    /\ lastOp' = op
    /\ ret' = r.ret
    /\ out' = buf
    /\ pre' = Cur(NoEnv)
    /\ log' = r.S.log
    /\ tally' = Tallied(op, r)

Open ==
    \E path \in Paths, env \in OpenEnvs :
        /\ file_handle < MaxFiles
        /\ Call([op |-> "open", fh |-> 0, n |-> 0, data |-> path.str, env |-> env],
                lcopen(Cur(env), path), <<>>)

Read ==
    \E fh \in Handles :
      \E len \in ReadLensFor(fh), env \in EnvsFor(fh) :
        LET r == lcread(Cur(env), fh, CallerBuf(len), len)
        IN  /\ cache_time < MaxTime
            /\ Call([op |-> "read", fh |-> fh, n |-> len, data |-> <<>>, env |-> env], r,
                    IF r.ret >= 0 THEN SubSeq(r.buf, 1, r.ret) ELSE <<>>)

Write ==
    \E fh \in Handles :
      \E buf \in BufsFor(fh), env \in EnvsFor(fh) :
        /\ cache_time < MaxTime
        /\ Call([op |-> "write", fh |-> fh, n |-> Len(buf), data |-> buf, env |-> env],
                lcwrite(Cur(env), fh, buf, Len(buf)), <<>>)

Seek ==
    \E fh \in Handles :
        \E off \in SeekOffsFor(fh) :
            Call([op |-> "seek", fh |-> fh, n |-> off, data |-> <<>>, env |-> NoEnv],
                 lcseek(Cur(NoEnv), fh, off), <<>>)

Close ==
    \E fh \in Handles :
        Call([op |-> "close", fh |-> fh, n |-> 0, data |-> <<>>, env |-> NoEnv],
             lcclose(Cur(NoEnv), fh), <<>>)

Shutdown ==
    \E env \in Envs :
        Call([op |-> "shutdown", fh |-> 0, n |-> 0, data |-> <<>>, env |-> env],
             lcshutdown(Cur(env)), <<>>)

\* the caller takes the result; the next call can be made
Return ==
    /\ ~Idle
    /\ lastOp' = NoOp
    /\ ret' = 0
    /\ out' = <<>>
    /\ pre' = <<>>
    /\ log' = <<>>
    /\ UNCHANGED <<file_handle, files, devices, LRU_cache, cache_time, hits, misses,
                   cache_lines, socket_handle, bus, fault, tally>>

Next == Open \/ Read \/ Write \/ Seek \/ Close \/ Shutdown \/ Return

Spec == Init /\ [][Next]_vars

----------------------------------------------------------------------------
(* Longer runs on one file: enough blocks are written for a cache line to  *)
(* be evicted, so that a later read or write finds its block missing from  *)
(* the cache.                                                              *)

\* the one file of the longer runs
LongHandle == 0

\* buffers written in the longer runs: a byte and a whole block
LongBufs == { <<7>>, Fill(LC_DEVICE_BLOCK_SIZE, 5) }

\* offsets sought in the longer runs: the block starts and the end of file
LongOffs(size) == { 0, LC_DEVICE_BLOCK_SIZE, size }

\* the environments of the longer runs
LongEnvs ==
    { NoEnv } \cup
    { [at |-> k, kind |-> x] : k \in 1..MaxLongFailAt, x \in FailKinds \cup { "io2", "io3" } }

LongOpen ==
    \E path \in Paths :
        /\ file_handle = 0
        /\ Call([op |-> "open", fh |-> 0, n |-> 0, data |-> path.str, env |-> NoEnv],
                lcopen(Cur(NoEnv), path), <<>>)

LongRead ==
    \E env \in LongEnvs :
        LET r == lcread(Cur(env), LongHandle, CallerBuf(LC_DEVICE_BLOCK_SIZE),
                        LC_DEVICE_BLOCK_SIZE)
        IN  /\ file_handle > 0
            /\ cache_time < MaxLongTime
            /\ Call([op |-> "read", fh |-> LongHandle, n |-> LC_DEVICE_BLOCK_SIZE,
                     data |-> <<>>, env |-> env], r,
                    IF r.ret >= 0 THEN SubSeq(r.buf, 1, r.ret) ELSE <<>>)

LongWrite ==
    \E buf \in LongBufs, env \in LongEnvs :
        /\ file_handle > 0
        /\ cache_time < MaxLongTime
        /\ Call([op |-> "write", fh |-> LongHandle, n |-> Len(buf), data |-> buf,
                 env |-> env],
                lcwrite(Cur(env), LongHandle, buf, Len(buf)), <<>>)

LongSeek ==
    \E off \in LongOffs(files[LongHandle].size) :
        /\ file_handle > 0
        /\ Call([op |-> "seek", fh |-> LongHandle, n |-> off, data |-> <<>>,
                 env |-> NoEnv],
                lcseek(Cur(NoEnv), LongHandle, off), <<>>)

LongNext == LongOpen \/ LongRead \/ LongWrite \/ LongSeek \/ Return

LongSpec == Init /\ [][LongNext]_vars

----------------------------------------------------------------------------
(* Two files side by side: each is written, sought and read, every request *)
(* answered well, for long enough that the blocks of one file push a block *)
(* of the other out of the cache.                                          *)

PairOpen ==
    \E n \in { <<97>>, <<98>> } :
        /\ file_handle < MaxFiles
        /\ Call([op |-> "open", fh |-> 0, n |-> 0, data |-> n, env |-> NoEnv],
                lcopen(Cur(NoEnv), [addr |-> <<"caller", n>>, str |-> n]), <<>>)

PairWrite ==
    \E fh \in 0..file_handle - 1 :
      \E buf \in { <<1, 0, 2>>, Fill(LC_DEVICE_BLOCK_SIZE, 5) } :
        /\ cache_time < MaxPairTime
        /\ Call([op |-> "write", fh |-> fh, n |-> Len(buf), data |-> buf, env |-> NoEnv],
                lcwrite(Cur(NoEnv), fh, buf, Len(buf)), <<>>)

PairSeek ==
    \E fh \in 0..file_handle - 1 :
        /\ files[fh].pos > 0
        /\ Call([op |-> "seek", fh |-> fh, n |-> 0, data |-> <<>>, env |-> NoEnv],
                lcseek(Cur(NoEnv), fh, 0), <<>>)

PairRead ==
    \E fh \in 0..file_handle - 1 :
        LET r == lcread(Cur(NoEnv), fh, CallerBuf(3), 3)
        IN  /\ cache_time < MaxPairTime
            /\ files[fh].pos < files[fh].size
            /\ Call([op |-> "read", fh |-> fh, n |-> 3, data |-> <<>>, env |-> NoEnv], r,
                    IF r.ret >= 0 THEN SubSeq(r.buf, 1, r.ret) ELSE <<>>)

PairNext == PairOpen \/ PairWrite \/ PairSeek \/ PairRead \/ Return

PairSpec == Init /\ [][PairNext]_vars

----------------------------------------------------------------------------
(* Acknowledgements and connection setup: one file is opened and written   *)
(* and the system shut down, the controller answering one request of a     *)
(* call with some other acknowledgement fields, or the setup of the        *)
(* connection failing.                                                     *)

\* the answers tried
AckKinds == { "nak", "ones", "wrongop", "io" } \cup SetupKinds

\* the environments of these runs
AckEnvs ==
    { NoEnv } \cup
    { [at |-> k, kind |-> x] : k \in 1..MaxOpenFailAt, x \in AckKinds }

AckOpen ==
    \E path \in Paths, env \in AckEnvs :
        /\ file_handle = 0
        /\ Call([op |-> "open", fh |-> 0, n |-> 0, data |-> path.str, env |-> env],
                lcopen(Cur(env), path), <<>>)

AckWrite ==
    \E env \in AckEnvs :
        /\ file_handle > 0
        /\ cache_time < MaxTime
        /\ Call([op |-> "write", fh |-> LongHandle, n |-> 1, data |-> <<7>>, env |-> env],
                lcwrite(Cur(env), LongHandle, <<7>>, 1), <<>>)

AckShutdown ==
    \E env \in AckEnvs :
        /\ socket_handle # -1
        /\ Call([op |-> "shutdown", fh |-> 0, n |-> 0, data |-> <<>>, env |-> env],
                lcshutdown(Cur(env)), <<>>)

AckNext == AckOpen \/ AckWrite \/ AckShutdown \/ Return

AckSpec == Init /\ [][AckNext]_vars

----------------------------------------------------------------------------
(* The cache on its own: initialised with a capacity, then looked up,      *)
(* inserted into and closed directly.                                      *)

\* block identities (device, sector, block) used as keys
CacheKeys == { <<0, 0, 0>>, <<0, 0, 1>>, <<1, 0, 0>> }

\* payloads inserted: one without a zero byte, one with
CachePayloads == { Fill(LC_DEVICE_BLOCK_SIZE, 5), Memcpy(ZeroBlock, 0, <<1, 0, 2>>, 3) }

\* values the uninitialised local least_recent of lcloud_putcache may hold:
\* any line index, or a value that is no index
UninitValues == (0..cache_lines - 1) \cup { INDETERMINATE }

\* the cache has not been closed
CacheOpen == cache_lines > 0 /\ LRU_cache \notin { NULL, FREED }

CacheInit ==
    /\ file_handle = Boot.file_handle
    /\ files = Boot.files
    /\ devices = Boot.devices
    /\ cache_time = Boot.cache_time
    /\ hits = Boot.hits
    /\ misses = Boot.misses
    /\ \E N \in 1..MaxCap :
           /\ cache_lines = N
           /\ LRU_cache = lcloud_initcache(Boot, N).LRU_cache
    /\ socket_handle = Boot.socket_handle
    /\ bus \in { [config |-> c, store |-> [k \in KeysOf(c) |-> ZeroBlock], linked |-> FALSE] : c \in Configs }
    /\ fault = FALSE
    /\ lastOp = NoOp
    /\ ret = 0
    /\ out = <<>>
    /\ pre = <<>>
    /\ log = <<>>
    /\ tally = NoTally

\* what a direct lcloud_getcache returned: 1 and the line's bytes, or 0 (NULL)
LookupResult(g) == [ S |-> g.S, ret |-> IF g.found THEN 1 ELSE 0, buf |-> g.buffer ]

CacheLookup ==
    \E k \in CacheKeys :
        /\ CacheOpen
        /\ cache_time < MaxCacheTime
        /\ Call([op |-> "lookup", fh |-> 0, n |-> 0, data |-> k, env |-> NoEnv],
                LookupResult(lcloud_getcache(Cur(NoEnv), k[1], k[2], k[3])),
                LookupResult(lcloud_getcache(Cur(NoEnv), k[1], k[2], k[3])).buf)

CacheInsert ==
    \E k \in CacheKeys, block \in CachePayloads, u \in UninitValues :
        /\ CacheOpen
        /\ cache_time < MaxCacheTime
        /\ Call([op |-> "insert", fh |-> 0, n |-> 0, data |-> k, env |-> NoEnv],
                [ S |-> lcloud_putcache(Cur(NoEnv), k[1], k[2], k[3], block, u),
                  ret |-> 0 ],
                block)

CacheClose ==
    /\ CacheOpen
    /\ Call([op |-> "closecache", fh |-> 0, n |-> 0, data |-> <<>>, env |-> NoEnv],
            [ S |-> lcloud_closecache(Cur(NoEnv)), ret |-> 0 ], <<>>)

CacheNext == CacheLookup \/ CacheInsert \/ CacheClose \/ Return

CacheSpec == CacheInit /\ [][CacheNext]_vars

----------------------------------------------------------------------------
(* What a call has done, read off the record it leaves until Return:       *)
(* lastOp is the call and the environment's choice, ret its result, out    *)
(* the bytes a read delivered, pre the globals before the call.            *)

\* the call on record was made on a handle whose file was open
OnOpenFile(op) ==
    /\ lastOp.op = op
    /\ lastOp.fh \in DOMAIN pre.files
    /\ lastOp.fh <= pre.file_handle
    /\ pre.files[lastOp.fh].opened = 1

\* a handle that names an open file now
IsOpen(fh) == fh < file_handle /\ files[fh].opened = 1

\* the bytes of the blocks j, j + 1, ..., last of the file's chain in S, as
\* the device holds them
RECURSIVE ChainBytes(_, _, _, _)
ChainBytes(S, file, j, last) ==
    IF j > last THEN <<>>
    ELSE LET g == get_block(S, [file EXCEPT !.pos = j * LC_DEVICE_BLOCK_SIZE])
         IN  S.bus.store[<<g.ret, g.sec, g.blk>>] \o ChainBytes(S, file, j + 1, last)

\* the contents of a file in S: size bytes along its chain on the devices
FileContent(S, fh) ==
    SubSeq(ChainBytes(S, S.files[fh], 0, (S.files[fh].size - 1) \div LC_DEVICE_BLOCK_SIZE),
           1, S.files[fh].size)

\* seek(O), read(n) after a call that left w; the bytes the read delivered
ReadBack(w, fh, O, n) ==
    LET r == lcread(lcseek(w.S, fh, O).S, fh, CallerBuf(n), n)
    IN  [ ret |-> r.ret, bytes |-> IF r.ret >= 0 THEN SubSeq(r.buf, 1, r.ret) ELSE <<>> ]

\* seek(O), write(B) from the present state, the bus answering well
WriteAt(fh, O, B) == lcwrite(lcseek(Cur(NoEnv), fh, O).S, fh, B, Len(B))

\* every present device has its grid and every descriptor is marked used
AllUsed(devs) ==
    /\ FreedGrids(devs) = {}
    /\ \A k \in PresentKeys(devs) : devs[k[1]].sector_block[<<k[2], k[3]>>].used = 1

----------------------------------------------------------------------------
(* Claims *)

\* C1: write-read consistency.  For an open file, an offset O within the
\* file and a byte string B, zero bytes included: after seek(O) and a
\* write(B) that succeeds, seek(O) and read(length(B)) return exactly B.
WriteReadConsistency ==
    (Idle /\ ~fault) =>
        \A fh \in 0..MaxFiles, B \in Bufs :
            IsOpen(fh) =>
                \A O \in { 0, 1, files[fh].size } \cap (0..files[fh].size) :
                    WriteAt(fh, O, B).ret = Len(B) =>
                        ReadBack(WriteAt(fh, O, B), fh, O, Len(B))
                            = [ ret |-> Len(B), bytes |-> B ]

\* C2: cache coherence.  Every cache line that holds a real (device, sector,
\* block) key has a payload equal to the 256 bytes the device holds for that
\* block, whatever the byte values.
CacheCoherence ==
    \A i \in 0..cache_lines - 1 :
        LRU_cache[i].dev_id # -1 =>
            LRU_cache[i].buffer =
                bus.store[<<LRU_cache[i].dev_id, LRU_cache[i].sec, LRU_cache[i].blk>>]

\* C3: opening a path whose file exists and is open, the paths compared by
\* their characters, returns -1 and creates no file.
OpenOfOpenPathFails ==
    lastOp.op = "open" =>
        ( (\E fh \in 0..pre.file_handle - 1 :
               pre.files[fh].opened = 1 /\ pre.files[fh].name = lastOp.data)
          => ret = -1 /\ file_handle = pre.file_handle /\ files = pre.files )

\* C4: opening the path of a file that exists and is closed returns that
\* file's handle, marks it open, puts its position at 0 and keeps its size
\* and its chain; no file is created.
ReopenReturnsOriginalHandle ==
    lastOp.op = "open" =>
        \A fh \in 0..pre.file_handle - 1 :
            ( /\ pre.files[fh].opened = 0
              /\ pre.files[fh].name = lastOp.data
              /\ \A o \in 0..pre.file_handle - 1 :
                     pre.files[o].name = lastOp.data => o = fh )
            => /\ ret = fh
               /\ file_handle = pre.file_handle
               /\ files = [pre.files EXCEPT ![fh].opened = 1, ![fh].pos = 0]

\* C5: seek bounds.  On an open file of size s, seek(off) with 0 <= off <= s
\* sets the position to off and returns off; with off < 0 or off > s it
\* returns -1 and leaves the position as it was.
SeekBounds ==
    OnOpenFile("seek") =>
        IF 0 <= lastOp.n /\ lastOp.n <= pre.files[lastOp.fh].size
        THEN ret = lastOp.n /\ files = [pre.files EXCEPT ![lastOp.fh].pos = lastOp.n]
        ELSE ret = -1 /\ files = pre.files

\* a seek to -1 on a file whose position is not 0 has failed and the position
\* is what it was
SeekNegativeRefused ==
    /\ OnOpenFile("seek")
    /\ lastOp.n = -1
    /\ pre.files[lastOp.fh].pos > 0
    /\ ret = -1
    /\ files[lastOp.fh].pos = pre.files[lastOp.fh].pos

\* C6: close on an open file returns 0 and changes the open flag only: size,
\* position and chain are kept; close on a handle whose file is closed, a
\* second close included, returns -1 and changes nothing.
CloseFlipsOpenFlagOnly ==
    (lastOp.op = "close" /\ lastOp.fh >= 0) =>
        IF OnOpenFile("close")
        THEN /\ ret = 0
             /\ files = [pre.files EXCEPT ![lastOp.fh].opened = 0]
             /\ devices = pre.devices
        ELSE /\ ret = -1
             /\ files = pre.files
             /\ devices = pre.devices

\* a close of a created file that was closed before, its position not 0, has
\* failed
SecondCloseRefused ==
    /\ lastOp.op = "close"
    /\ lastOp.fh \in 0..pre.file_handle - 1
    /\ pre.files[lastOp.fh].opened = 0
    /\ pre.files[lastOp.fh].pos > 0
    /\ ret = -1
    /\ files = pre.files

\* C7: read(fh, n) on an open file with position p and size s, the bus
\* answering well, returns k = min(n, s - p), delivers the file's bytes
\* p..p+k-1 and leaves the position at p + k and the size at s.
ReadDeliversFileBytes ==
    (OnOpenFile("read") /\ lastOp.env = NoEnv) =>
        LET p == pre.files[lastOp.fh].pos
            s == pre.files[lastOp.fh].size
            k == Min(lastOp.n, s - p)
        IN  /\ ret = k
            /\ out = SubSeq(FileContent(pre, lastOp.fh), p + 1, p + k)
            /\ files = [pre.files EXCEPT ![lastOp.fh].pos = p + k]

\* C8: a write of n bytes that succeeds on a file with position p and size s
\* returns n and leaves position p + n and size max(s, p + n); a 1-byte write
\* at the end of a file of 256 bytes, the bus answering well, succeeds and
\* leaves size 257.
WriteAdvances ==
    lastOp.op = "write" =>
        /\ ret # -1 =>
              /\ OnOpenFile("write")
              /\ ret = lastOp.n
              /\ files[lastOp.fh].pos = pre.files[lastOp.fh].pos + lastOp.n
              /\ files[lastOp.fh].size =
                     Max(pre.files[lastOp.fh].size, pre.files[lastOp.fh].pos + lastOp.n)
        /\ ( /\ OnOpenFile("write")
             /\ lastOp.env = NoEnv
             /\ lastOp.n = 1
             /\ pre.files[lastOp.fh].size = LC_DEVICE_BLOCK_SIZE
             /\ pre.files[lastOp.fh].pos = LC_DEVICE_BLOCK_SIZE )
           => ret = 1 /\ files[lastOp.fh].size = LC_DEVICE_BLOCK_SIZE + 1

\* a 1-byte write at the end of a file of 256 bytes has returned 1 and the
\* size is 257
SecondWriteGrowsTo257 ==
    /\ OnOpenFile("write")
    /\ lastOp.n = 1
    /\ pre.files[lastOp.fh].size = LC_DEVICE_BLOCK_SIZE
    /\ pre.files[lastOp.fh].pos = LC_DEVICE_BLOCK_SIZE
    /\ ret = 1
    /\ files[lastOp.fh].size = LC_DEVICE_BLOCK_SIZE + 1
    /\ files[lastOp.fh].pos = LC_DEVICE_BLOCK_SIZE + 1

\* C9: handles are dense and increasing and never reassigned: the k-th file
\* created is filed under handle k - 1, which the creating open returns, and
\* a call leaves every file created before it under its handle.
HandlesDense ==
    /\ \A fh \in 0..MaxFiles :
           IF fh < file_handle
           THEN files[fh].fh = fh + 1
           ELSE files[fh] = ZeroFile
    /\ ~Idle =>
           /\ \A fh \in 0..pre.file_handle - 1 :
                  files[fh].fh = pre.files[fh].fh /\ files[fh].name = pre.files[fh].name
           /\ file_handle # pre.file_handle =>
                  /\ lastOp.op = "open"
                  /\ file_handle = pre.file_handle + 1
                  /\ ret = pre.file_handle
                  /\ files[ret].name = lastOp.data

\* the open that created the second file has returned 1, the first file
\* still under handle 0
SecondCreateReturnsOne ==
    /\ lastOp.op = "open"
    /\ pre.file_handle = 1
    /\ file_handle = 2
    /\ ret = 1
    /\ files[0] = pre.files[0]

\* C10: allocator exhaustion.  With every descriptor of every present device
\* marked used, a write to an open file that has no chain yet returns -1,
\* and every file keeps its size and its chain: files, descriptors and the
\* blocks on the devices are as before.
ExhaustionFailsCleanly ==
    ( /\ OnOpenFile("write")
      /\ pre.files[lastOp.fh].size = 0
      /\ AllUsed(pre.devices) )
    => /\ ret = -1
       /\ files = pre.files
       /\ devices = pre.devices
       /\ bus.store = pre.bus.store
       /\ \A fh \in 0..file_handle - 1 :
              files[fh].size > 0 => FileContent(Cur(NoEnv), fh) = FileContent(pre, fh)

\* a write to a chain-less file has failed with every descriptor used, while
\* another file holds data
WriteAtExhaustion ==
    /\ OnOpenFile("write")
    /\ pre.files[lastOp.fh].size = 0
    /\ AllUsed(pre.devices)
    /\ lastOp.n > 0
    /\ ret = -1
    /\ \E fh \in 0..file_handle - 1 : files[fh].size >= LC_DEVICE_BLOCK_SIZE

----------------------------------------------------------------------------
(* The register codec on its own: a field tuple is encoded, the frame is   *)
(* decoded.                                                                *)

\* values of the fields tried: the ends of each range and values between
Fields4 == { 0, 1, 8, 15 }
Fields8 == { 0, 4, 255 }
Fields16 == { 0, 256, 65535 }

\* the field tuples b0, b1, c0, c1, c2, d0, d1
FieldTuples ==
    { <<b0, b1, c0, c1, c2, d0, d1>> :
        b0 \in Fields4, b1 \in { 0, 15 }, c0 \in Fields8, c1 \in { 0, 255 },
        c2 \in Fields8, d0 \in Fields16, d1 \in Fields16 }

\* field tuples with values wider than their fields, negative ones among them
WideTuples ==
    { <<b0, b1, c0, c1, c2, d0, d1>> :
        b0 \in { 1, 17, -1 }, b1 \in { 0, 16 }, c0 \in { 4, 260, -1 }, c1 \in { 255, 256 },
        c2 \in { 0, 511 }, d0 \in { 256, 65792, -1 }, d1 \in { 65535, 65536 } }

\* the registers r as the tuple b0, b1, c0, c1, c2, d0, d1
TupleOf(r) == <<r.b0, r.b1, r.c0, r.c1, r.c2, r.d0, r.d1>>

\* the globals the codec does not touch
CodecUntouched ==
    UNCHANGED <<file_handle, files, devices, LRU_cache, cache_time, hits, misses,
                cache_lines, socket_handle, bus, fault, pre, log, tally>>

CodecInit ==
    /\ file_handle = Boot.file_handle
    /\ files = Boot.files
    /\ devices = Boot.devices
    /\ LRU_cache = Boot.LRU_cache
    /\ cache_time = Boot.cache_time
    /\ hits = Boot.hits
    /\ misses = Boot.misses
    /\ cache_lines = Boot.cache_lines
    /\ socket_handle = Boot.socket_handle
    /\ bus \in { [config |-> c, store |-> [k \in KeysOf(c) |-> ZeroBlock], linked |-> FALSE] : c \in Configs }
    /\ fault = FALSE
    /\ \E t \in FieldTuples \cup WideTuples :
           lastOp = [op |-> "fields", fh |-> 0, n |-> 0, data |-> t, env |-> NoEnv]
    /\ ret = 0
    /\ out = <<>>
    /\ pre = <<>>
    /\ log = <<>>
    /\ tally = NoTally

\* create_lcloud_registers is applied to the tuple
Encode ==
    /\ lastOp.op = "fields"
    /\ lastOp' = [lastOp EXCEPT !.op = "encode"]
    /\ out' = create_lcloud_registers(lastOp.data[1], lastOp.data[2], lastOp.data[3],
                                      lastOp.data[4], lastOp.data[5], lastOp.data[6],
                                      lastOp.data[7])
    /\ ret' = 0
    /\ CodecUntouched

\* extract_lcloud_registers is applied to the frame
Decode ==
    /\ lastOp.op = "encode"
    /\ lastOp' = [lastOp EXCEPT !.op = "decode"]
    /\ out' = TupleOf(extract_lcloud_registers(out))
    /\ ret' = 0
    /\ CodecUntouched

CodecNext == Encode \/ Decode

CodecSpec == CodecInit /\ [][CodecNext]_vars

----------------------------------------------------------------------------
(* The cache used on its own                                               *)

\* the keys resident in a line array
Resident(cache) ==
    { <<cache[i].dev_id, cache[i].sec, cache[i].blk>> :
        i \in { j \in DOMAIN cache : cache[j].entry_time >= 0 } }

\* an insert of a key that is not resident was made into a cache holding as
\* many distinct keys as it has lines
InsertIntoFull ==
    /\ lastOp.op = "insert"
    /\ Cardinality(Resident(pre.LRU_cache)) = pre.cache_lines
    /\ lastOp.data \notin Resident(pre.LRU_cache)

\* line e was touched before every other line
OldestLine(cache, e) ==
    \A j \in DOMAIN cache : j = e \/ cache[e].entry_time < cache[j].entry_time

\* C11: cache LRU property.  For every capacity N >= 1, an insert of a key
\* that is not resident into a cache holding N distinct keys replaces the
\* line whose last touch (lookup hit or insert) is the oldest, and the other
\* N-1 lines keep their keys and their payloads.
LRUEviction ==
    InsertIntoFull
    => /\ ~fault
       /\ \E e \in DOMAIN pre.LRU_cache :
             /\ OldestLine(pre.LRU_cache, e)
             /\ <<LRU_cache[e].dev_id, LRU_cache[e].sec, LRU_cache[e].blk>> = lastOp.data
             /\ \A j \in DOMAIN pre.LRU_cache \ {e} :
                   /\ LRU_cache[j].dev_id = pre.LRU_cache[j].dev_id
                   /\ LRU_cache[j].sec = pre.LRU_cache[j].sec
                   /\ LRU_cache[j].blk = pre.LRU_cache[j].blk
                   /\ LRU_cache[j].buffer = pre.LRU_cache[j].buffer

\* C12: cache statistics.  At any point the hit counter is the number of
\* lookups that returned a line and the miss counter the number that
\* returned none; an insert changes neither counter; the values reported
\* when the cache is closed after K lookups with H hits are H and K - H.
CacheStatistics ==
    /\ hits = tally.found
    /\ misses = tally.lookups - tally.found
    /\ lastOp.op = "insert" => hits = pre.hits /\ misses = pre.misses
    /\ lastOp.op = "closecache"
       => /\ Len(log) = 1
          /\ log[1].ev = "report"
          /\ log[1].hits = tally.found
          /\ log[1].misses = tally.lookups - tally.found

\* the cache is closed after an insert, a lookup that hit and a lookup that
\* missed
ClosedAfterHitAndMiss ==
    /\ lastOp.op = "closecache"
    /\ tally.lookups >= 2
    /\ tally.found >= 1
    /\ tally.lookups - tally.found >= 1
    /\ log[1].hits = tally.found
    /\ log[1].misses >= 1

----------------------------------------------------------------------------
(* Handles, shutdown and failures                                          *)

\* the call on record is one of read, write, seek and close
OnHandle == lastOp.op \in { "read", "write", "seek", "close" }

\* the handle of the call on record was not returned by open, or its file
\* is closed
HandleRefusable ==
    \/ lastOp.fh < 0
    \/ lastOp.fh >= pre.file_handle
    \/ pre.files[lastOp.fh].opened = 0

\* C13: handle validation.  read, write, seek and close given a negative
\* handle, a handle not yet assigned or the handle of a closed file return
\* -1 and leave every file's position, size and open flag, the device
\* table and the cache as they were.
HandleValidation ==
    (OnHandle /\ HandleRefusable)
    => /\ ret = -1
       /\ ~fault
       /\ files = pre.files
       /\ devices = pre.devices
       /\ LRU_cache = pre.LRU_cache

\* the positions in the log of the call on record of the events e with P(e)
Events(P(_)) == { i \in 1..Len(log) : P(log[i]) }

IsClose(e) == e.ev = "close"
IsPowerOff(e) == e.ev = "req" /\ e.reg.c0 = LC_POWER_OFF
IsAckedPowerOff(e) == IsPowerOff(e) /\ e.kind = "ok"

\* C14: shutdown.  Every file that was open is closed before the power-off
\* request is sent; shutdown returns 0 only when the power-off request was
\* acknowledged well; when it has returned, 0 or -1, no file of the file
\* table is open; after it returned 0 the transport holds no connection.
\* (A shutdown that frees the cache a second time has no defined return.)
ShutdownClosesThenPowersOff ==
    (lastOp.op = "shutdown" /\ ~fault)
    => /\ \A fh \in 0..pre.file_handle - 1 :
              pre.files[fh].opened = 1
              => \E i \in Events(IsClose) :
                    /\ log[i].fh = fh
                    /\ \A j \in Events(IsPowerOff) : i < j
       /\ ret = 0 => Events(IsAckedPowerOff) # {}
       /\ ret \in { 0, -1 }
       /\ \A fh \in DOMAIN files : files[fh].opened = 0
       /\ ret = 0 => socket_handle = -1

\* a shutdown with one file open and one closed has returned 0: the open
\* file was closed first, the power-off request sent after
ShutdownWithOpenFile ==
    /\ lastOp.op = "shutdown"
    /\ ~fault
    /\ ret = 0
    /\ pre.file_handle = 2
    /\ pre.files[0].opened = 0
    /\ pre.files[1].opened = 1
    /\ pre.socket_handle = SOCKET_FD
    /\ Len(log) = 3
    /\ log[1] = [ev |-> "close", fh |-> 1]
    /\ IsAckedPowerOff(log[2])
    /\ socket_handle = -1

IsFailedRequest(e) ==
    /\ e.ev = "req"
    /\ \/ WireCutShort(e)
       \/ AckRejected(extract_lcloud_registers(Respond(bus, e.reg, e.kind)), e.reg.c0)
IsBlockWrite(e) ==
    e.ev = "req" /\ e.reg.c0 = LC_BLOCK_XFER /\ e.reg.c2 = LC_XFER_WRITE

\* C15: no failure is swallowed.  When a request made while serving a read
\* or a write fails in transport or is not acknowledged well, the re-read
\* that write makes of the target block included, the read or write
\* returns -1 and sends no block-write after the failed request.
NoFailureSwallowed ==
    (lastOp.op \in { "read", "write" } /\ Events(IsFailedRequest) # {})
    => /\ ret = -1
       /\ \A i \in Events(IsFailedRequest), j \in Events(IsBlockWrite) : j <= i

\* C16: power-on failure.  When a request of the power-on sequence made by
\* an open (power-on, probe or a device-init) fails in transport or is not
\* acknowledged well, the open returns -1 and creates no file: the file
\* table and the handle counter are as before.
PowerOnFailureFailsOpen ==
    (lastOp.op = "open" /\ Events(IsFailedRequest) # {})
    => /\ ret = -1
       /\ files = pre.files
       /\ file_handle = pre.file_handle

\* an open has failed at the device-init request of the second device, the
\* power-on, the probe and the first device-init having been acknowledged
OpenFailedAtSecondDeviceInit ==
    /\ lastOp.op = "open"
    /\ Len(log) = 4
    /\ log[1].reg.c0 = LC_POWER_ON /\ log[1].kind = "ok"
    /\ log[2].reg.c0 = LC_DEVPROBE /\ log[2].kind = "ok"
    /\ log[3].reg.c0 = LC_DEVINIT /\ log[3].kind = "ok"
    /\ log[4].reg.c0 = LC_DEVINIT /\ IsFailedRequest(log[4])
    /\ ret = -1
    /\ file_handle = 0

\* bit k of a frame, bit 63 being the most significant
FrameBit(frame, k) == (frame[4 - (k \div 16)] \div Pow2(k % 16)) % 2

\* the number held in bits hi..lo of a frame
RECURSIVE FrameBits(_, _, _)
FrameBits(frame, hi, lo) ==
    IF hi < lo THEN 0
    ELSE FrameBit(frame, lo) + 2 * FrameBits(frame, hi, lo + 1)

\* the field tuples whose values fit their fields
FieldsInRange ==
    (0..15) \X (0..15) \X (0..255) \X (0..255) \X (0..255) \X (0..65535) \X (0..65535)

\* C17: codec round trip.  For every field tuple with b0, b1 < 16,
\* c0, c1, c2 < 256 and d0, d1 < 65536, decoding the encoded frame gives the
\* tuple back, and the frame holds B0 in bits 63..60, B1 in 59..56, C0 in
\* 55..48, C1 in 47..40, C2 in 39..32, D0 in 31..16 and D1 in 15..0.
CodecRoundTrip ==
    /\ (lastOp.op = "decode" /\ lastOp.data \in FieldsInRange) => out = lastOp.data
    /\ (lastOp.op = "encode" /\ lastOp.data \in FieldsInRange)
       => /\ FrameBits(out, 63, 60) = lastOp.data[1]
          /\ FrameBits(out, 59, 56) = lastOp.data[2]
          /\ FrameBits(out, 55, 48) = lastOp.data[3]
          /\ FrameBits(out, 47, 40) = lastOp.data[4]
          /\ FrameBits(out, 39, 32) = lastOp.data[5]
          /\ FrameBits(out, 31, 16) = lastOp.data[6]
          /\ FrameBits(out, 15, 0) = lastOp.data[7]

\* the tuple with b0 = 8 (bit 63 set) and the other fields at their largest
\* values has been encoded and decoded
TopBitTupleDecoded ==
    /\ lastOp.op = "decode"
    /\ lastOp.data = <<8, 15, 255, 255, 255, 65535, 65535>>
    /\ out = <<8, 15, 255, 255, 255, 65535, 65535>>

----------------------------------------------------------------------------
(* Block chains                                                            *)

\* the number of blocks on the chain that starts at descriptor (dev, sec, blk)
\* and follows the successor fields up to the first -1; at most fuel blocks
RECURSIVE ChainFrom(_, _, _, _, _)
ChainFrom(devs, dev, sec, blk, fuel) ==
    IF sec = NONE \/ blk = NONE \/ fuel = 0 THEN 0
    ELSE IF dev \notin DOMAIN devs THEN 0
    ELSE IF <<sec, blk>> \notin DOMAIN devs[dev].sector_block THEN 0
    ELSE 1 + ChainFrom(devs,
                       devs[dev].sector_block[<<sec, blk>>].next_dev_id,
                       devs[dev].sector_block[<<sec, blk>>].next_sector,
                       devs[dev].sector_block[<<sec, blk>>].next_block,
                       fuel - 1)

\* the number of blocks on a file's chain; a file of size 0 has no first block
ChainLength(devs, file) ==
    IF file.size = 0 THEN 0
    ELSE ChainFrom(devs, file.dev_id, file.sector, file.block,
                   Cardinality(PresentKeys(devs)) + 1)

\* ceil(size / 256)
BlocksCovering(size) == (size + LC_DEVICE_BLOCK_SIZE - 1) \div LC_DEVICE_BLOCK_SIZE

\* the descriptor grids are held (no shutdown has freed them)
GridsHeld == FreedGrids(devices) = {}

\* C18: chain-length invariant.  After any sequence of open, write, seek,
\* read and close, the chain of every file has ceil(size / 256) blocks, none
\* for a file never written, and so holds the byte positions 0..size-1.
ChainLengthIsCeil ==
    GridsHeld =>
        \A fh \in 0..file_handle - 1 :
            /\ ChainLength(devices, files[fh]) = BlocksCovering(files[fh].size)
            /\ ChainLength(devices, files[fh]) * LC_DEVICE_BLOCK_SIZE >= files[fh].size

\* C18 as the program keeps it: the chain of a file of size 0 has no block,
\* the chain of a file of size s > 0 has floor(s / 256) + 1 blocks, one more
\* than ceil(s / 256) when s is a multiple of 256, and so holds the byte
\* positions 0..size-1.
ChainLengthIsFloorPlusOne ==
    GridsHeld =>
        \A fh \in 0..file_handle - 1 :
            /\ ChainLength(devices, files[fh]) =
                   IF files[fh].size = 0 THEN 0
                   ELSE files[fh].size \div LC_DEVICE_BLOCK_SIZE + 1
            /\ ChainLength(devices, files[fh]) * LC_DEVICE_BLOCK_SIZE >= files[fh].size

\* a file of 256 bytes has a chain of two blocks, a file of 257 bytes too
ChainsOfTwoBlocks ==
    /\ GridsHeld
    /\ \E fh \in 0..file_handle - 1 :
          /\ files[fh].size \in { LC_DEVICE_BLOCK_SIZE, LC_DEVICE_BLOCK_SIZE + 1 }
          /\ lastOp.op = "write" /\ lastOp.fh = fh /\ ret = lastOp.n
          /\ ChainLength(devices, files[fh]) = 2

\* the number of descriptors marked used
UsedCount(devs) ==
    Cardinality({ k \in PresentKeys(devs) :
                    devs[k[1]].sector_block[<<k[2], k[3]>>].used = 1 })

\* a write on an open file is on record, the grids being held before it
OnWrite == OnOpenFile("write") /\ FreedGrids(pre.devices) = {}

\* the write on record ends at or before the size the file had
WriteWithin == pre.files[lastOp.fh].pos + lastOp.n <= pre.files[lastOp.fh].size

\* the write on record starts in a file that has bytes, moves the end of the
\* file and stays within one block
WriteExtendsInBlock ==
    /\ lastOp.n > 0
    /\ pre.files[lastOp.fh].size > 0
    /\ pre.files[lastOp.fh].pos + lastOp.n > pre.files[lastOp.fh].size
    /\ pre.files[lastOp.fh].pos \div LC_DEVICE_BLOCK_SIZE
         = (pre.files[lastOp.fh].pos + lastOp.n - 1) \div LC_DEVICE_BLOCK_SIZE

\* C19: when a block is appended.  A write that does not extend the file
\* (it ends at or before the current size) appends no block and allocates
\* none; a write that succeeds, moves the end of the file and stays within
\* one block appends and allocates one block exactly when the new end is a
\* multiple of 256.
BlockAppendedOnlyAtNewBoundary ==
    OnWrite =>
        /\ WriteWithin
           => /\ UsedCount(devices) = UsedCount(pre.devices)
              /\ ChainLength(devices, files[lastOp.fh])
                   = ChainLength(pre.devices, pre.files[lastOp.fh])
              /\ devices = pre.devices
        /\ (WriteExtendsInBlock /\ ret = lastOp.n)
           => UsedCount(devices) - UsedCount(pre.devices)
                = IF (pre.files[lastOp.fh].pos + lastOp.n) % LC_DEVICE_BLOCK_SIZE = 0
                  THEN 1 ELSE 0

IsPut(e) == e.ev = "put"
IsAckedBlockWrite(e) == IsBlockWrite(e) /\ e.kind = "ok"

\* the block a logged request addresses
RequestKey(e) == <<e.reg.c1, e.reg.d0, e.reg.d1>>

\* the key and the payload of line l of a cache
LineContent(cache, l) ==
    <<cache[l].dev_id, cache[l].sec, cache[l].blk, cache[l].buffer>>

\* C20: write-through ordering.  In a write, every cache insert directly
\* follows the block-write request for the same block, acknowledged well; a
\* block-write request that fails is followed by no insert, and only lines
\* that hold a block whose write was acknowledged differ in key or payload
\* from what they were: when the only block-write fails, none does.
WriteThroughOrdering ==
    lastOp.op = "write" =>
        /\ \A i \in Events(IsPut) :
              /\ i > 1
              /\ IsAckedBlockWrite(log[i - 1])
              /\ RequestKey(log[i - 1]) = log[i].key
        /\ \A j \in Events(IsBlockWrite) :
              ~IsAckedBlockWrite(log[j]) => \A i \in Events(IsPut) : i < j
        /\ \A l \in DOMAIN LRU_cache :
              LineContent(LRU_cache, l) # LineContent(pre.LRU_cache, l)
              => \E j \in Events(IsAckedBlockWrite) :
                    RequestKey(log[j]) = <<LRU_cache[l].dev_id, LRU_cache[l].sec,
                                           LRU_cache[l].blk>>

\* a write over two blocks: the first block-write was acknowledged and its
\* block inserted, the second failed and nothing was inserted after it
SecondBlockWriteFailed ==
    /\ lastOp.op = "write"
    /\ ret = -1
    /\ Cardinality(Events(IsAckedBlockWrite)) = 1
    /\ Cardinality(Events(IsPut)) = 1
    /\ \E j \in Events(IsBlockWrite) :
          /\ IsFailedRequest(log[j])
          /\ j = Len(log)
          /\ \A i \in Events(IsPut) : i < j

----------------------------------------------------------------------------
(* The cache as reads and writes use it                                    *)

IsGet(e) == e.ev = "get"
IsAckedBlockRead(e) ==
    e.ev = "req" /\ e.reg.c0 = LC_BLOCK_XFER /\ e.reg.c2 = LC_XFER_READ /\ e.kind = "ok"

\* C21: a read never populates the cache.  A read makes no cache insert, a
\* block fetched from the device after a miss included: every cache line
\* has the key and the payload it had before the read (timestamps, the
\* clock and the hit and miss counters may differ).
ReadNeverFillsCache ==
    lastOp.op = "read" =>
        /\ Events(IsPut) = {}
        /\ DOMAIN LRU_cache = DOMAIN pre.LRU_cache
        /\ \A l \in DOMAIN LRU_cache :
              LineContent(LRU_cache, l) = LineContent(pre.LRU_cache, l)

\* a read has missed the cache, fetched the block from the device and
\* delivered its bytes, and the block is still in no line
ReadFetchedAfterMiss ==
    /\ lastOp.op = "read"
    /\ ret = LC_DEVICE_BLOCK_SIZE
    /\ Len(log) = 2
    /\ IsGet(log[1])
    /\ IsAckedBlockRead(log[2])
    /\ misses = pre.misses + 1
    /\ log[1].key \notin Resident(LRU_cache)

\* the lines of a cache that hold a key
RealLines(cache) == { l \in DOMAIN cache : cache[l].entry_time >= 0 }

\* the key of line l
LineKey(cache, l) == <<cache[l].dev_id, cache[l].sec, cache[l].blk>>

\* C22: one line per key.  After any sequence of inserts and lookups with
\* defined behaviour no two lines hold the same (device, sector, block) key;
\* an insert of a key that is resident rewrites the line that holds it and
\* leaves every other line as it was, so that the same keys are resident.
OneLinePerKey ==
    ~fault =>
        /\ \A l1, l2 \in RealLines(LRU_cache) :
              LineKey(LRU_cache, l1) = LineKey(LRU_cache, l2) => l1 = l2
        /\ (lastOp.op = "insert" /\ lastOp.data \in Resident(pre.LRU_cache))
           => /\ Resident(LRU_cache) = Resident(pre.LRU_cache)
              /\ \A l \in DOMAIN LRU_cache :
                    IF LineKey(pre.LRU_cache, l) = lastOp.data
                    THEN /\ LineKey(LRU_cache, l) = lastOp.data
                         /\ LRU_cache[l].buffer = CacheCopy(out)
                         /\ LRU_cache[l].entry_time = cache_time
                    ELSE LRU_cache[l] = pre.LRU_cache[l]

\* a key resident in the line touched last, the other line holding an older
\* key, has been inserted again with another payload: both keys are resident
ResidentKeyInsertedAgain ==
    /\ lastOp.op = "insert"
    /\ pre.cache_lines = 2
    /\ Cardinality(Resident(pre.LRU_cache)) = 2
    /\ \E l \in DOMAIN pre.LRU_cache :
          /\ LineKey(pre.LRU_cache, l) = lastOp.data
          /\ pre.LRU_cache[l].buffer # LRU_cache[l].buffer
          /\ \A o \in DOMAIN pre.LRU_cache \ {l} :
                pre.LRU_cache[o].entry_time < pre.LRU_cache[l].entry_time
    /\ Cardinality(Resident(LRU_cache)) = 2

----------------------------------------------------------------------------
(* Protocol and allocation                                                 *)

IsRequest(e) == e.ev = "req"

\* the response to the logged request came, its C0 echoes the opcode and
\* its B0 and B1 both hold v
AckedWith(e, v) ==
    /\ ~WireCutShort(e)
    /\ AckC0(e.kind, e.reg.c0) = e.reg.c0
    /\ AckB0(e.kind) = v
    /\ AckB1(e.kind) = v

\* the call on record went on after request i of its log: it made a further
\* request, or it did not return the failure value
WentOnAfter(i) == (\E j \in Events(IsRequest) : j > i) \/ ret # -1

\* C23: acknowledgements.  The response to a power-on, probe, device-init,
\* block-transfer or power-off request is taken as success exactly when its
\* C0 echoes the opcode of the request and B0 and B1 both hold 15, the
\* all-ones value of a 4-bit field; after any other response the operation
\* fails.
AcceptedExactlyAllOnes ==
    \A i \in Events(IsRequest) : WentOnAfter(i) <=> AckedWith(log[i], 15)


\* descriptor k of a device table
Descriptor(devs, k) == devs[k[1]].sector_block[<<k[2], k[3]>>]

\* the descriptors marked used
UsedKeys(devs) == { k \in PresentKeys(devs) : Descriptor(devs, k).used = 1 }

\* the descriptor allocate_block returned as a
AllocatedKey(a) == <<a.ret, a.sec, a.blk>>

\* allocate_block, called in state S with result a, took the first unused
\* descriptor and touched nothing else
TookFirstUnused(S, a) ==
    /\ a.ret # -1
    /\ AllocatedKey(a) \in FreeKeys(S.devices)
    /\ \A o \in FreeKeys(S.devices) : o = AllocatedKey(a) \/ KeyBefore(AllocatedKey(a), o)
    /\ PresentKeys(a.S.devices) = PresentKeys(S.devices)
    /\ \A o \in PresentKeys(S.devices) :
          Descriptor(a.S.devices, o) =
              IF o = AllocatedKey(a) THEN [Descriptor(S.devices, o) EXCEPT !.used = 1]
              ELSE Descriptor(S.devices, o)
    /\ [a.S EXCEPT !.devices = S.devices] = S

\* the descriptors the call on record marked used
NewlyUsed == UsedKeys(devices) \ UsedKeys(pre.devices)

\* C24: first-fit allocation.  Called on any reachable device table whose
\* grids are held, allocate_block returns the first unused descriptor in
\* (device id, sector, block) order over the present devices, marks exactly
\* that descriptor used and changes nothing else; it returns -1, changing
\* nothing, exactly when no descriptor of a present device is unused.  The
\* descriptors a write marks used are therefore the first unused ones in
\* that order, and it clears no used flag.
FirstFitAllocation ==
    /\ (GridsHeld /\ ~fault) =>
          IF FreeKeys(devices) = {}
          THEN /\ allocate_block(Cur(NoEnv)).ret = -1
               /\ allocate_block(Cur(NoEnv)).S = Cur(NoEnv)
          ELSE TookFirstUnused(Cur(NoEnv), allocate_block(Cur(NoEnv)))
    /\ (OnWrite /\ GridsHeld /\ ~fault) =>
          /\ UsedKeys(pre.devices) \subseteq UsedKeys(devices)
          /\ \A k \in NewlyUsed : \A o \in FreeKeys(pre.devices) :
                KeyBefore(o, k) => o \in NewlyUsed

\* a write has taken a descriptor that is not the first of the table, the
\* ones before it being used and one after it still unused
WriteTookSecondDescriptor ==
    /\ OnWrite /\ GridsHeld /\ ~fault
    /\ ret = lastOp.n
    /\ Cardinality(NewlyUsed) = 1
    /\ UsedKeys(pre.devices) # {}
    /\ FreeKeys(devices) # {}
    /\ \A k \in NewlyUsed : \A o \in UsedKeys(pre.devices) : KeyBefore(o, k)


\* descriptor d names a following block, as get_block tests it
HasSuccessor(d) == d.next_sector # NONE /\ d.next_block # NONE

\* descriptor k of devs is used in devs2 if it was in devs, and names a
\* following block in devs2 if it did in devs
KeptIn(devs, devs2, k) ==
    /\ Descriptor(devs, k).used = 1 =>
          k \in PresentKeys(devs2) /\ Descriptor(devs2, k).used = 1
    /\ HasSuccessor(Descriptor(devs, k)) =>
          k \in PresentKeys(devs2) /\ HasSuccessor(Descriptor(devs2, k))

\* C25: block permanence.  In every step other than a shutdown (a call of
\* open, read, write, seek or close, or its return) and with defined
\* behaviour, a descriptor marked used stays marked used and a descriptor
\* that names a following block still names one: no used flag is cleared
\* and no successor pointer goes back to 'none'.
BlockPermanence ==
    [][ (lastOp'.op # "shutdown" /\ ~fault')
        => \A k \in PresentKeys(devices) : KeptIn(devices, devices', k) ]_vars

\* a write has given a block that had a successor another successor, the
\* former one staying marked used
SuccessorReplaced ==
    /\ OnWrite /\ GridsHeld /\ ~fault
    /\ \E k \in PresentKeys(pre.devices) :
          /\ HasSuccessor(Descriptor(pre.devices, k))
          /\ HasSuccessor(Descriptor(devices, k))
          /\ Descriptor(devices, k) # Descriptor(pre.devices, k)
          /\ Descriptor(devices, << Descriptor(pre.devices, k).next_dev_id,
                                    Descriptor(pre.devices, k).next_sector,
                                    Descriptor(pre.devices, k).next_block >>).used = 1


\* the call on record sent a power-on request
PowerOnRequested(l) ==
    \E i \in 1..Len(l) : l[i].ev = "req" /\ l[i].reg.c0 = LC_POWER_ON

\* C26: power-on only on the first open.  A call of lcopen sends the
\* power-on request exactly when no call of lcopen was made before it,
\* whatever the earlier calls returned.
PowerOnOnlyOnFirstOpen ==
    [][ lastOp'.op = "open" => (PowerOnRequested(log') <=> ~tally.opened) ]_vars


\* the registers of the response the controller gave to logged request e
ResponseTo(e) == extract_lcloud_registers(Respond(bus, e.reg, e.kind))

\* the logged requests with opcode op, and with opcode op and C1 = c1
RequestsOf(op) == Events(LAMBDA e : e.ev = "req" /\ e.reg.c0 = op)
RequestsFor(op, c1) == Events(LAMBDA e : e.ev = "req" /\ e.reg.c0 = op /\ e.reg.c1 = c1)

\* an open has run the power-on sequence to its end
PoweredOn == lastOp.op = "open" /\ PowerOnRequested(log) /\ ret >= 0

\* slot id holds a device of the geometry of response r, no block in use
FreshDevice(id, r) ==
    /\ devices[id].dev_id = id
    /\ devices[id].sectors = r.d0
    /\ devices[id].blocks = r.d1
    /\ DOMAIN devices[id].sector_block = (0..r.d0 - 1) \X (0..r.d1 - 1)
    /\ \A x \in DOMAIN devices[id].sector_block :
          /\ devices[id].sector_block[x].used = 0
          /\ devices[id].sector_block[x].next_sector = NONE
          /\ devices[id].sector_block[x].next_block = NONE
          /\ devices[id].sector_block[x].next_dev_id = NONE

\* C27: the device table after power-on.  When an open has run the power-on
\* sequence with success, one probe request was answered, and for every slot
\* i of 0..15: if bit i of D0 of the probe response is set, one device-init
\* request for i was answered and slot i holds device i with the sector
\* count D0 and the block count D1 of that response, every descriptor unused
\* with no successor; otherwise no device-init was sent for i and slot i is
\* marked absent.
DeviceTableAfterPowerOn ==
    PoweredOn =>
        /\ Cardinality(RequestsOf(LC_DEVPROBE)) = 1
        /\ \A p \in RequestsOf(LC_DEVPROBE) : \A i \in 0..LC_MAX_DEVICES - 1 :
              IF (ResponseTo(log[p]).d0 \div Pow2(i)) % 2 = 1
              THEN /\ Cardinality(RequestsFor(LC_DEVINIT, i)) = 1
                   /\ \A q \in RequestsFor(LC_DEVINIT, i) :
                         q > p /\ FreshDevice(i, ResponseTo(log[q]))
              ELSE /\ RequestsFor(LC_DEVINIT, i) = {}
                   /\ devices[i].dev_id = NONE

\* power-on has found devices 0 and 2 of different geometry, slot 1 absent
PoweredOnTwoDevices ==
    /\ PoweredOn
    /\ devices[0].dev_id = 0 /\ devices[1].dev_id = NONE /\ devices[2].dev_id = 2
    /\ devices[2].sectors # devices[2].blocks
    /\ Cardinality(DOMAIN devices[2].sector_block) = 2


----------------------------------------------------------------------------
(* The transport on the wire *)

\* the socket calls of logged request i
Wire(i) == log[i].wire

\* request i made the socket call named, as its first and as its last call
ConnectsFirst(i) == Wire(i)[1].call = "connect"
ClosesLast(i) == Wire(i)[Len(Wire(i))].call = "close"

\* the socket calls of request i named call
CallsOf(i, call) == { n \in 1..Len(Wire(i)) : Wire(i)[n].call = call }

\* the requests on record before request i
EarlierRequests(i) == { j \in Events(IsRequest) : j < i }

\* a connection is held when request i of the call on record is made: the
\* request before it did not close it, or none was held before the call
HeldBefore(i) ==
    IF EarlierRequests(i) = {} THEN pre.socket_handle # -1
    ELSE \A j \in EarlierRequests(i) :
            (\A k \in EarlierRequests(i) : k <= j) => ~ClosesLast(j)

\* request i is a power-off whose exchange went through
PowerOffCompleted(i) ==
    log[i].reg.c0 = LC_POWER_OFF /\ \A n \in 1..Len(Wire(i)) : Wire(i)[n].done

\* C28: connection lifecycle.  A request connects, as its first socket call
\* and once, exactly when no connection is held as it is made; a request
\* closes the connection, as its last socket call and once, exactly when it
\* is a power-off whose exchange went through; a connection is held after a
\* call exactly when its last request did not close it (or it made none and
\* one was held before), so a connection made is used by every request up
\* to the next completed power-off and the request after that connects anew.
ConnectionLifecycle ==
    (~Idle /\ ~fault) =>
    /\ \A i \in Events(IsRequest) :
          /\ CallsOf(i, "connect") = IF HeldBefore(i) THEN {} ELSE {1}
          /\ CallsOf(i, "close") = IF PowerOffCompleted(i) THEN {Len(Wire(i))} ELSE {}
    /\ IF Events(IsRequest) = {} THEN socket_handle = pre.socket_handle
       ELSE \A i \in Events(IsRequest) :
               (\A k \in Events(IsRequest) : k <= i) =>
                   (socket_handle = -1) = ClosesLast(i)
    /\ socket_handle \in { -1, SOCKET_FD }

\* a shutdown made after a power-off had closed the connection has connected
\* anew, sent its power-off and closed the new connection
ReconnectedAfterPowerOff ==
    /\ ~Idle /\ ~fault
    /\ lastOp.op = "shutdown"
    /\ file_handle > 0
    /\ pre.socket_handle = -1
    /\ Len(log) >= 1
    /\ IsRequest(log[Len(log)]) /\ ConnectsFirst(Len(log)) /\ ClosesLast(Len(log))
    /\ socket_handle = -1


\* the writes and reads of request i: its socket calls without the connect
\* at the front and the close at the end
Transfers(i) ==
    SubSeq(Wire(i), IF ConnectsFirst(i) THEN 2 ELSE 1,
                    IF ClosesLast(i) THEN Len(Wire(i)) - 1 ELSE Len(Wire(i)))

\* every write and read of request i moved its full count
Completed(i) == \A n \in 1..Len(Wire(i)) : Wire(i)[n].done

\* the sequence of writes and reads the request registers r call for
SequenceFor(r) ==
    IF r.c0 = LC_BLOCK_XFER /\ r.c2 = LC_XFER_WRITE
    THEN << [call |-> "write", bytes |-> 8, done |-> TRUE],
            [call |-> "write", bytes |-> 256, done |-> TRUE],
            [call |-> "read", bytes |-> 8, done |-> TRUE] >>
    ELSE IF r.c0 = LC_BLOCK_XFER /\ r.c2 = LC_XFER_READ
    THEN << [call |-> "write", bytes |-> 8, done |-> TRUE],
            [call |-> "read", bytes |-> 8, done |-> TRUE],
            [call |-> "read", bytes |-> 256, done |-> TRUE] >>
    ELSE << [call |-> "write", bytes |-> 8, done |-> TRUE],
            [call |-> "read", bytes |-> 8, done |-> TRUE] >>

\* sequence w is sequence s cut after a call that came short
CutShort(w, s) ==
    /\ Len(w) \in 1..Len(s)
    /\ \A n \in 1..Len(w) : w[n] = [s[n] EXCEPT !.done = (n < Len(w))]

\* C29: wire sequence by opcode.  A request whose writes and reads all move
\* their full count writes the 8-byte frame, then for a block-write writes
\* 256 bytes of payload and reads one 8-byte frame, for a block-read reads
\* one 8-byte frame and then 256 bytes of payload, and for any other opcode
\* reads one 8-byte frame and moves no payload; a request of which a write
\* or read comes short stops there, and one whose connection could not be
\* set up moves nothing.  And no request frame is written before
\* the response frame of the request before it was read: every request
\* that another request of the call follows has read its 8-byte response
\* frame in full.
WireSequenceByOpcode ==
    ~Idle =>
    /\ \A i \in Events(IsRequest) :
          IF Completed(i) THEN Transfers(i) = SequenceFor(log[i].reg)
          ELSE IF log[i].kind \in SetupKinds THEN Transfers(i) = << >>
          ELSE CutShort(Transfers(i), SequenceFor(log[i].reg))
    /\ \A i \in Events(IsRequest) : \A j \in EarlierRequests(i) :
          \E n \in 1..Len(Wire(j)) :
              Wire(j)[n] = [call |-> "read", bytes |-> 8, done |-> TRUE]

\* a write has fetched its target block from the controller and written it
\* back, both exchanges going through
BlockFetchedAndWrittenBack ==
    /\ lastOp.op = "write"
    /\ \E i \in Events(IsRequest) : \E j \in EarlierRequests(i) :
          /\ Completed(i) /\ Completed(j)
          /\ log[j].reg.c0 = LC_BLOCK_XFER /\ log[j].reg.c2 = LC_XFER_READ
          /\ log[i].reg.c0 = LC_BLOCK_XFER /\ log[i].reg.c2 = LC_XFER_WRITE


----------------------------------------------------------------------------
(* The encoder on over-wide values *)

\* the widths of the fields b0, b1, c0, c1, c2, d0, d1
FieldWidths == <<4, 4, 8, 8, 8, 16, 16>>

\* the tuple t with every value reduced modulo 2^width of its field
Reduced(t) == [ n \in 1..7 |-> t[n] % Pow2(FieldWidths[n]) ]

\* the frame that holds tuple t field by field, each in its own bits
FrameHolding(t) ==
    << t[1] * 4096 + t[2] * 256 + t[3], t[4] * 256 + t[5], t[6], t[7] >>

\* C30: encode truncates and never rejects.  For every field tuple, values
\* too wide for their fields and negative values among them, encode returns
\* a frame, the frame that holds in the bits of each field the value reduced
\* modulo 2^width (widths 4, 4, 8, 8, 8, 16, 16), which is the frame encode
\* returns for the reduced values: no field takes bits from its neighbour.
EncodeTruncates ==
    lastOp.op = "encode" =>
        /\ out = FrameHolding(Reduced(lastOp.data))
        /\ out = create_lcloud_registers(Reduced(lastOp.data)[1], Reduced(lastOp.data)[2],
                                         Reduced(lastOp.data)[3], Reduced(lastOp.data)[4],
                                         Reduced(lastOp.data)[5], Reduced(lastOp.data)[6],
                                         Reduced(lastOp.data)[7])
        /\ FrameBits(out, 63, 60) = Reduced(lastOp.data)[1]
        /\ FrameBits(out, 59, 56) = Reduced(lastOp.data)[2]
        /\ FrameBits(out, 55, 48) = Reduced(lastOp.data)[3]
        /\ FrameBits(out, 47, 40) = Reduced(lastOp.data)[4]
        /\ FrameBits(out, 39, 32) = Reduced(lastOp.data)[5]
        /\ FrameBits(out, 31, 16) = Reduced(lastOp.data)[6]
        /\ FrameBits(out, 15, 0) = Reduced(lastOp.data)[7]

\* a tuple with b0 = 17, c0 = -1 and d0 = 65792 has been encoded: the frame
\* holds 1, 255 and 256 in their fields
WideTupleEncoded ==
    /\ lastOp.op = "encode"
    /\ lastOp.data = <<17, 16, -1, 256, 511, 65792, 65536>>
    /\ out = << 1 * 4096 + 0 * 256 + 255, 0 * 256 + 255, 256, 0 >>


----------------------------------------------------------------------------
(* Failed writes, orphans and chains *)

\* C31: a failed write keeps position and size.  When a write on an open
\* file returns -1, the file's position and its size are those of before
\* the call.
FailedWriteKeepsPositionAndSize ==
    (OnOpenFile("write") /\ ~fault /\ ret = -1)
    => /\ files[lastOp.fh].pos = pre.files[lastOp.fh].pos
       /\ files[lastOp.fh].size = pre.files[lastOp.fh].size


\* the descriptors on the chain that starts at (dev, sec, blk) and follows
\* the successor fields up to the first -1; at most fuel blocks
RECURSIVE ChainKeys(_, _, _, _, _)
ChainKeys(devs, dev, sec, blk, fuel) ==
    IF sec = NONE \/ blk = NONE \/ fuel = 0 THEN {}
    ELSE IF dev \notin DOMAIN devs THEN {}
    ELSE IF <<sec, blk>> \notin DOMAIN devs[dev].sector_block THEN {}
    ELSE { <<dev, sec, blk>> } \cup
         ChainKeys(devs,
                   devs[dev].sector_block[<<sec, blk>>].next_dev_id,
                   devs[dev].sector_block[<<sec, blk>>].next_sector,
                   devs[dev].sector_block[<<sec, blk>>].next_block,
                   fuel - 1)

\* the descriptors on the chain of the file with handle fh, walked from the
\* first block its entry of the file table names
FileKeys(devs, fls, fh) ==
    ChainKeys(devs, fls[fh].dev_id, fls[fh].sector, fls[fh].block,
              Cardinality(PresentKeys(devs)))

\* the descriptors on the chain of some file
ReachableKeys(devs, fls, n) == UNION { FileKeys(devs, fls, fh) : fh \in 0..n - 1 }

\* C32: no orphaned blocks.  While the grids are held, every descriptor
\* marked used is on the chain that starts at the first block of some file
\* of the file table.
NoOrphanedBlocks ==
    (GridsHeld /\ ~fault) =>
        UsedKeys(devices) \subseteq ReachableKeys(devices, files, file_handle)


\* the chain that starts at (dev, sec, blk) comes back to a block it has
\* visited: seen holds the blocks walked so far
RECURSIVE ChainRevisits(_, _, _, _, _)
ChainRevisits(devs, dev, sec, blk, seen) ==
    IF sec = NONE \/ blk = NONE THEN FALSE
    ELSE IF dev \notin DOMAIN devs THEN FALSE
    ELSE IF <<sec, blk>> \notin DOMAIN devs[dev].sector_block THEN FALSE
    ELSE IF <<dev, sec, blk>> \in seen THEN TRUE
    ELSE ChainRevisits(devs,
                       devs[dev].sector_block[<<sec, blk>>].next_dev_id,
                       devs[dev].sector_block[<<sec, blk>>].next_sector,
                       devs[dev].sector_block[<<sec, blk>>].next_block,
                       seen \cup { <<dev, sec, blk>> })

\* the files that hold data: created, with a size above 0
DataFiles == { fh \in 0..file_handle - 1 : files[fh].size > 0 }

\* the bytes a read of the whole file fh delivers in state S
WholeRead(S, fh) == ReadBack([S |-> S], fh, 0, S.files[fh].size)

\* C33: chains are disjoint and acyclic.  While the grids are held, no block
\* is on the chains of two files that hold data and no chain comes back to a
\* block it has visited; and a write to one file leaves the bytes of every
\* other file as they were, on the devices and as a read delivers them.
ChainsDisjointAndAcyclic ==
    (GridsHeld /\ ~fault) =>
        /\ \A f \in DataFiles, g \in DataFiles :
              f # g => FileKeys(devices, files, f) \cap FileKeys(devices, files, g) = {}
        /\ \A f \in DataFiles :
              ~ChainRevisits(devices, files[f].dev_id, files[f].sector, files[f].block, {})
        /\ OnWrite =>
              \A g \in DataFiles \ { lastOp.fh } :
                  /\ files[g] = pre.files[g]
                  /\ FileContent(Cur(NoEnv), g) = FileContent(pre, g)
                  /\ WholeRead(Cur(NoEnv), g) = WholeRead(pre, g)

\* a write has put data into a second file, the first holding data on
\* another block
SecondFileWritten ==
    /\ OnWrite /\ GridsHeld /\ ~fault
    /\ ret = lastOp.n /\ lastOp.n > 0
    /\ DataFiles = { 0, 1 }
    /\ FileKeys(devices, files, 0) # {}
    /\ FileKeys(devices, files, 1) # {}
    /\ FileContent(Cur(NoEnv), 0) # FileContent(Cur(NoEnv), 1)


----------------------------------------------------------------------------
(* The line an insert overwrites *)

\* the index the scan of an insert of key k into the cache of state S
\* assigns to least_recent, INDETERMINATE when it assigns none
ScanAssigned(S, k) ==
    PutScan(S.LRU_cache, S.cache_lines, 0, k[1], k[2], k[3], S.cache_time, INDETERMINATE)

\* the lines that differ between two line arrays
LinesChanged(c1, c2) == { l \in DOMAIN c1 : c1[l] # c2[l] }

\* line e of cache holds key k, or no line holds k and none has a smaller
\* timestamp than line e
ChosenByScan(cache, k, e) ==
    \/ LineKey(cache, e) = k
    \/ /\ \A l \in DOMAIN cache : LineKey(cache, l) # k
       /\ \A l \in DOMAIN cache : cache[e].entry_time <= cache[l].entry_time

\* C34: the line an insert overwrites.  For every capacity N >= 1, the scan
\* of an insert assigns the index before it is used, the index is in
\* 0..N-1, and the insert overwrites exactly the line of that index: the
\* line holding the key, else a line with the smallest timestamp.
InsertIndexAssigned ==
    lastOp.op = "insert" =>
        /\ ~fault
        /\ ScanAssigned(pre, lastOp.data) \in 0..pre.cache_lines - 1
        /\ LinesChanged(pre.LRU_cache, LRU_cache) = { ScanAssigned(pre, lastOp.data) }
        /\ ChosenByScan(pre.LRU_cache, lastOp.data, ScanAssigned(pre, lastOp.data))


----------------------------------------------------------------------------
(* After shutdown *)

\* the call on record is a read or a write on an open file, made after
\* lcshutdown had freed the descriptor grids
AfterGridsFreed ==
    /\ OnOpenFile("read") \/ OnOpenFile("write")
    /\ FreedGrids(pre.devices) # {}

\* C35: no access to a released grid.  A read or a write on a file opened
\* after shutdown released the descriptor grids does not touch a released
\* grid: the behaviour of the call is defined, power-on having been run
\* again or the call failing before any block is allocated or walked.
ReleasedGridsUntouched == AfterGridsFreed => ~fault


----------------------------------------------------------------------------
(* Connection setup *)

\* the setup of the connection failed in logged request e
SetupFailedIn(e) == e.ev = "req" /\ e.kind \in SetupKinds

\* C36: failed connection setup.  When the setup of the connection fails in
\* a request (address conversion, socket creation or connect), the request
\* is the last of its call, the call returns -1 and no handle is held
\* afterwards; so a handle held is always that of a connected socket, and
\* the first request of a call writes to the socket without connecting only
\* when a connection was held before the call.
SetupFailureLeavesNoHandle ==
    ~Idle =>
    /\ \A i \in Events(SetupFailedIn) :
          /\ \A j \in Events(IsRequest) : j <= i
          /\ ret = -1
          /\ socket_handle = -1
    /\ socket_handle # -1 => bus.linked
    /\ \A i \in Events(IsRequest) :
          (EarlierRequests(i) = {} /\ Wire(i)[1].call # "connect")
              => (pre.socket_handle # -1 /\ pre.bus.linked)


----------------------------------------------------------------------------
(* The device-table accesses of the chain walk *)

\* the ids of the devices that are on
PresentIds(devs) == { id \in 0..LC_MAX_DEVICES - 1 : devs[id].dev_id # NONE }

\* the call on record began with a walk of the chain of its file: a write of
\* at least one byte to a file that holds data, or a read of at least one
\* byte before the end of the file, the grids being held
WalkedChain ==
    /\ OnOpenFile("write") \/ OnOpenFile("read")
    /\ lastOp.n > 0
    /\ pre.files[lastOp.fh].size > 0
    /\ lastOp.op = "read" => pre.files[lastOp.fh].pos < pre.files[lastOp.fh].size
    /\ FreedGrids(pre.devices) = {}

\* C37: the chain walk and the 'none' sentinel.  Every index at which the
\* walk of get_block reads the device table, the look-ahead at the last
\* block of a chain included, is the id of a present device; the sentinel
\* -1 is never used as an index.
WalkIndexesPresent ==
    WalkedChain =>
        GetBlockIndexes(pre.devices, pre.files[lastOp.fh]) \subseteq PresentIds(pre.devices)

=============================================================================
